---------------------------- MODULE Spec2Model ----------------------------
(***************************************************************************)
(* State-machine model of the backtesting core of rsi-strat:               *)
(*   - the indicator engine of indicator.go (RSI, EMA, volume ratio),      *)
(*   - RunBounceBacktest of bounce.go,                                     *)
(*   - RunBacktest of backtest.go.                                         *)
(* float64 values are modelled as exact rationals <<num, den>>; a float    *)
(* division by zero gives Inf (<<1,0>>, <<-1,0>>) or NaN (<<0,0>>).        *)
(* Go slices are 0-based; sequences here are 1-based, so a[i] of the code  *)
(* is a[i+1] of the model.                                                 *)
(***************************************************************************)
EXTENDS Integers, Sequences, FiniteSets, TLC

VARIABLES
    run,            \* 1 for the first call, 2 for the call repeated on the same input
    firstResult,    \* Nil, or <<the Result the first call returned>>
    engine,         \* which entry point runs: "bounce" or "backtest"
    pc,             \* position of the run inside the entry point
    config,         \* BounceConfig / BacktestConfig of the run
    strategyConfig, \* StrategyConfig of the run (RunBacktest only)
    n,              \* len(klines)
    klines,         \* the bars klines[0..i] the loop has reached so far
    rsi,            \* rsi[0..i]
    emaFast,        \* ema5[0..i] (bounce) / emaFast[0..i] (backtest)
    emaSlow,        \* ema13[0..i] (bounce) / emaSlow[0..i] (backtest)
    volRatio,       \* volRatio[0..i] (backtest)
    i,              \* loop index
    balance,
    position,       \* Nil or <<the position record>>
    maxBalance,
    shouldClose,    \* local of the exit block
    closeReason,    \* local of the exit block
    result          \* the *Result under construction

vars == <<run, firstResult, engine, pc, config, strategyConfig, n, klines, rsi, emaFast, emaSlow,
          volRatio, i, balance, position, maxBalance, shouldClose, closeReason,
          result>>

---------------------------------------------------------------------------
(* Bounds of the model *)

\* number of trailing bars of a run whose prices are drawn freely; the bars
\* before them repeat the base price
MaxFree == 5

\* len(klines) ranges over the shortest accepted length .. that + MaxExtra
MaxExtra == 0

\* longest series handed to an indicator or signal function called on its own
MaxLen == 4

---------------------------------------------------------------------------
(* float64 arithmetic on exact rationals *)

Abs(x) == IF x < 0 THEN -x ELSE x

RECURSIVE GCD(_, _)
GCD(a, b) == IF b = 0 THEN a ELSE GCD(b, a % b)

RNorm(num, den) ==
    IF den = 0 THEN <<(IF num > 0 THEN 1 ELSE IF num < 0 THEN -1 ELSE 0), 0>>
    ELSE LET g == GCD(Abs(num), Abs(den))
             s == IF den < 0 THEN -1 ELSE 1
         IN  <<(s * num) \div g, (s * den) \div g>>

R(x) == <<x, 1>>
Frac(a, b) == RNorm(a, b)
Zero == R(0)
One == R(1)
NaN == <<0, 0>>
IsNaN(a) == a = NaN

RNeg(a) == <<-a[1], a[2]>>

RAdd(a, b) ==
    IF a[2] = 0 \/ b[2] = 0
    THEN (IF IsNaN(a) \/ IsNaN(b) THEN NaN
          ELSE IF a[2] = 0 /\ b[2] = 0 THEN (IF a = b THEN a ELSE NaN)
          ELSE IF a[2] = 0 THEN a ELSE b)
    ELSE LET g == GCD(a[2], b[2])
         IN  RNorm(a[1] * (b[2] \div g) + b[1] * (a[2] \div g),
                   (a[2] \div g) * b[2])

RSub(a, b) == RAdd(a, RNeg(b))

RMul(a, b) ==
    IF a[2] = 0 \/ b[2] = 0
    THEN (IF a[1] = 0 \/ b[1] = 0 THEN NaN
          ELSE <<(IF (a[1] > 0) = (b[1] > 0) THEN 1 ELSE -1), 0>>)
    ELSE LET g1 == GCD(Abs(a[1]), b[2])
             g2 == GCD(Abs(b[1]), a[2])
         IN  RNorm((a[1] \div g1) * (b[1] \div g2),
                   (a[2] \div g2) * (b[2] \div g1))

RInv(a) == IF a[1] > 0 THEN <<a[2], a[1]>>
           ELSE IF a[1] < 0 THEN <<-a[2], -a[1]>>
           ELSE <<(IF a[2] = 0 THEN 0 ELSE 1), 0>>

\* x / y of float64: x/0 is +Inf or -Inf, 0/0 is NaN
RDiv(a, b) ==
    IF b[1] = 0 /\ b[2] # 0
    THEN <<(IF a[1] > 0 THEN 1 ELSE IF a[1] < 0 THEN -1 ELSE 0), 0>>
    ELSE RMul(a, RInv(b))

\* a/b < c/d for b, d > 0, by continued fractions (no large products)
RECURSIVE CFLess(_, _, _, _)
CFLess(a, b, c, d) ==
    LET q1 == a \div b
        q2 == c \div d
        r1 == a % b
        r2 == c % d
    IN  IF q1 # q2 THEN q1 < q2
        ELSE IF r2 = 0 THEN FALSE
        ELSE IF r1 = 0 THEN TRUE
        ELSE CFLess(d, r2, b, r1)

RLt(a, b) ==
    IF IsNaN(a) \/ IsNaN(b) THEN FALSE
    ELSE IF a[2] = 0 \/ b[2] = 0 THEN a[1] * b[2] < b[1] * a[2]
    ELSE CFLess(a[1], a[2], b[1], b[2])

RGt(a, b) == RLt(b, a)
RLe(a, b) == ~IsNaN(a) /\ ~IsNaN(b) /\ ~RLt(b, a)
RGe(a, b) == RLe(b, a)

Nil == <<>>

---------------------------------------------------------------------------
(* Indicator engine (indicator.go).  A Kline is a record                   *)
(* [Timestamp, Open, High, Low, Close, Volume] of integers.                *)

\* changes[j] = klines[j+1].Close - klines[j].Close
Change(kl, j) == kl[j + 2].Close - kl[j + 1].Close

RECURSIVE Gains(_, _, _)
Gains(kl, lo, hi) ==
    IF lo >= hi THEN 0
    ELSE (IF Change(kl, lo) > 0 THEN Change(kl, lo) ELSE 0) + Gains(kl, lo + 1, hi)

RECURSIVE Losses(_, _, _)
Losses(kl, lo, hi) ==
    IF lo >= hi THEN 0
    ELSE (IF Change(kl, lo) > 0 THEN 0 ELSE Abs(Change(kl, lo))) + Losses(kl, lo + 1, hi)

\* mutant of RSIAt: no clamp of the zero average loss
RSIAtUnclamped(kl, period, idx) ==
    IF idx < period THEN Zero
    ELSE LET gains == Gains(kl, idx - period, idx)
             losses == Losses(kl, idx - period, idx)
             avgGain == RDiv(R(gains), R(period))
             avgLoss == RDiv(R(losses), R(period))
             rs == RDiv(avgGain, avgLoss)
         IN  RSub(R(100), RDiv(R(100), RAdd(One, rs)))

\* rsi[idx] as CalculateRSI(kl, period) leaves it
RSIAt(kl, period, idx) ==
    IF idx < period THEN Zero
    ELSE LET gains == Gains(kl, idx - period, idx)
             losses == Losses(kl, idx - period, idx)
             avgGain == RDiv(R(gains), R(period))
             avgLoss == RDiv(R(losses), R(period))
         IN  IF avgLoss = Zero THEN R(100)
             ELSE LET rs == RDiv(avgGain, avgLoss)
                  IN  RSub(R(100), RDiv(R(100), RAdd(One, rs)))

\* mutant of CalculateRSI: the guard asks for period bars only
CalculateRSILooseGuard(kl, period) ==
    IF Len(kl) < period THEN Nil
    ELSE [j \in 1..Len(kl) |-> RSIAt(kl, period, j - 1)]

CalculateRSI(kl, period) ==
    IF Len(kl) < period + 1 THEN Nil
    ELSE [j \in 1..Len(kl) |-> RSIAt(kl, period, j - 1)]

RECURSIVE SumClose(_, _, _)
SumClose(kl, lo, hi) ==
    IF lo >= hi THEN 0 ELSE kl[lo + 1].Close + SumClose(kl, lo + 1, hi)

\* mutant of EMANext: multiplier 2 / period
EMANextWrongMultiplier(prev, close, period) ==
    RAdd(RMul(RSub(R(close), prev), RDiv(R(2), R(period))), prev)

\* ema[i] = (klines[i].Close - ema[i-1]) * multiplier + ema[i-1]
EMANext(prev, close, period) ==
    RAdd(RMul(RSub(R(close), prev), RDiv(R(2), R(period + 1))), prev)

\* ema[idx], given ema[0..idx-1] = arr
EMAExtend(arr, kl, period) ==
    LET idx == Len(arr)
    IN  IF idx < period - 1 THEN Zero
        ELSE IF idx = period - 1 THEN RDiv(R(SumClose(kl, 0, period)), R(period))
        ELSE EMANext(arr[idx], kl[idx + 1].Close, period)

\* the array ema with ema[0..Len(arr)-1] = arr and the rest filled in
RECURSIVE EMAFill(_, _, _)
EMAFill(kl, period, arr) ==
    IF Len(arr) >= Len(kl) THEN arr
    ELSE EMAFill(kl, period, Append(arr, EMAExtend(arr, kl, period)))

CalculateEMA(kl, period) ==
    IF Len(kl) < period THEN Nil ELSE EMAFill(kl, period, <<>>)

RECURSIVE SumVolume(_, _, _)
SumVolume(kl, lo, hi) ==
    IF lo > hi THEN 0 ELSE kl[lo + 1].Volume + SumVolume(kl, lo + 1, hi)

VolumeMAAt(kl, period, idx) ==
    IF idx < period - 1 THEN Zero
    ELSE RDiv(R(SumVolume(kl, idx - period + 1, idx)), R(period))

CalculateVolumeMA(kl, period) ==
    IF Len(kl) < period THEN Nil
    ELSE [j \in 1..Len(kl) |-> VolumeMAAt(kl, period, j - 1)]

\* mutant of VolumeRatioAt: divides whatever the moving average is
VolumeRatioAtUnguarded(kl, period, idx) ==
    RDiv(R(kl[idx + 1].Volume), VolumeMAAt(kl, period, idx))

VolumeRatioAt(kl, period, idx) ==
    LET ma == VolumeMAAt(kl, period, idx)
    IN  IF RGt(ma, Zero) THEN RDiv(R(kl[idx + 1].Volume), ma) ELSE Zero

VolumeRatio(kl, period) ==
    IF CalculateVolumeMA(kl, period) = Nil THEN Nil
    ELSE [j \in 1..Len(kl) |-> VolumeRatioAt(kl, period, j - 1)]

\* mutant of GenerateSignal: the volume confirmation is dropped
GenerateSignalNoVolume(kl, cfg) ==
    LET len == Len(kl)
    IN  IF len < cfg.RSI_PERIOD + 2 \/ len < cfg.EMA_SLOW + 1 THEN "SignalNone"
        ELSE LET r == CalculateRSI(kl, cfg.RSI_PERIOD)
                 fast == CalculateEMA(kl, cfg.EMA_FAST)
                 slow == CalculateEMA(kl, cfg.EMA_SLOW)
             IN  IF r = Nil \/ fast = Nil \/ slow = Nil THEN "SignalNone"
                 ELSE IF /\ RLt(r[len - 1], cfg.RSI_OVERSOLD_LONG)
                         /\ RGe(r[len], cfg.RSI_ENTRY_LONG)
                         /\ RGt(fast[len], slow[len])
                 THEN "SignalLong"
                 ELSE IF /\ RGt(r[len - 1], cfg.RSI_OVERBOUGHT_SHORT)
                         /\ RLe(r[len], cfg.RSI_ENTRY_SHORT)
                         /\ RLt(fast[len], slow[len])
                 THEN "SignalShort"
                 ELSE "SignalNone"

\* GenerateSignal (indicator.go 485-526)
GenerateSignal(kl, cfg) ==
    LET len == Len(kl)
    IN  IF len < cfg.RSI_PERIOD + 2 \/ len < cfg.EMA_SLOW + 1 THEN "SignalNone"
        ELSE LET r == CalculateRSI(kl, cfg.RSI_PERIOD)
                 fast == CalculateEMA(kl, cfg.EMA_FAST)
                 slow == CalculateEMA(kl, cfg.EMA_SLOW)
                 vr == VolumeRatio(kl, cfg.RSI_PERIOD)
             IN  IF r = Nil \/ fast = Nil \/ slow = Nil \/ vr = Nil THEN "SignalNone"
                 ELSE LET currentRSI == r[len]
                          prevRSI == r[len - 1]
                          uptrend == RGt(fast[len], slow[len])
                          downtrend == RLt(fast[len], slow[len])
                          volumeOK == RGe(vr[len], cfg.VOL_RATIO_THRESHOLD)
                          rsiBull == /\ RLt(prevRSI, cfg.RSI_OVERSOLD_LONG)
                                     /\ RGe(currentRSI, cfg.RSI_ENTRY_LONG)
                          rsiBear == /\ RGt(prevRSI, cfg.RSI_OVERBOUGHT_SHORT)
                                     /\ RLe(currentRSI, cfg.RSI_ENTRY_SHORT)
                      IN  IF rsiBull /\ uptrend /\ volumeOK THEN "SignalLong"
                          ELSE IF rsiBear /\ downtrend /\ volumeOK THEN "SignalShort"
                          ELSE "SignalNone"

\* the indices of rsi that GenerateExitSignal reads: rsi[n-1] and rsi[n-2]
ExitSignalReads(kl, cfg) ==
    IF Len(kl) < cfg.RSI_PERIOD + 1 \/ CalculateRSI(kl, cfg.RSI_PERIOD) = Nil
    THEN {}
    ELSE {Len(kl) - 1, Len(kl) - 2}

\* GenerateExitSignal (indicator.go 248-279)
GenerateExitSignal(kl, cfg, positionSide) ==
    LET len == Len(kl)
    IN  IF len < cfg.RSI_PERIOD + 1 THEN "SignalNone"
        ELSE LET r == CalculateRSI(kl, cfg.RSI_PERIOD)
             IN  IF r = Nil THEN "SignalNone"
                 ELSE LET currentRSI == r[len]
                          prevRSI == r[len - 1]
                      IN  IF /\ positionSide = "LONG"
                             /\ RGe(prevRSI, R(50)) /\ RLt(currentRSI, R(50))
                          THEN "SignalCloseLong"
                          ELSE IF /\ positionSide = "SHORT"
                                  /\ RLe(prevRSI, R(50)) /\ RGt(currentRSI, R(50))
                          THEN "SignalCloseShort"
                          ELSE "SignalNone"

---------------------------------------------------------------------------
(* Inputs of a run *)

\* closes, timestamp steps and volumes of the freely drawn bars
Prices(eng) == IF eng = "bounce" THEN {2, 4, 8} ELSE {1, 4, 8}
Steps == {60}
Volumes(eng) == IF eng = "bounce" THEN {1} ELSE {1, 2}

\* the bar that repeats the base price (4), at timestamp ts
QuietBar(ts) ==
    [Timestamp |-> ts, Open |-> 4, High |-> 4, Low |-> 4, Close |-> 4, Volume |-> 1]

\* klines[0..len-1] of a run whose bars so far all repeat the base price
QuietPrefix(len) == [j \in 1..len |-> QuietBar(60 * (j - 1))]

\* how many trailing bars of a run are drawn freely
FreeBars(eng) == IF eng = "bounce" THEN MaxFree ELSE MaxFree - 1

\* the bars klines[idx] may be, after klines[idx-1] = prev
BarsAfter(prev, idx, len) ==
    IF idx < len - FreeBars(engine)
    THEN {QuietBar(prev.Timestamp + 60)}
    ELSE {[Timestamp |-> prev.Timestamp + st, Open |-> prev.Close, High |-> c,
           Low |-> c, Close |-> c, Volume |-> v] :
              st \in Steps, c \in Prices(engine), v \in Volumes(engine)}

BounceConfigs ==
    {[Symbol |-> "BTCUSDT", StartBalance |-> R(64), FeeRate |-> fee,
      Leverage |-> R(5), DropLookback |-> 2, DropThreshold |-> Frac(1, 8),
      RSIOversold |-> R(32), RSIEntry |-> R(38),
      FirstBatchSize |-> Frac(1, 4), OtherBatchSize |-> Frac(1, 4),
      BatchInterval |-> bi, MaxBatches |-> mb,
      BounceTarget |-> Frac(1, 4), ProfitThreshold |-> Frac(1, 2),
      StartExitTime |-> 60, ExitInterval |-> 60, ExitPercent |-> ep,
      MaxHoldTime |-> 180, RSIExit |-> rx] :
        fee \in {Zero, Frac(1, 16)}, mb \in {1, 2}, ep \in {Frac(1, 4), One},
        rx \in {R(0), R(45)}, bi \in {60, 120}}

EmptyResult(startBalance) ==
    [TotalTrades |-> 0, WinTrades |-> 0, LoseTrades |-> 0, TotalPnL |-> Zero,
     TotalFees |-> Zero, WinRate |-> Zero, ProfitFactor |-> Zero,
     MaxDrawdown |-> Zero, Trades |-> <<>>, BalanceCurve |-> <<startBalance>>]

---------------------------------------------------------------------------
(* RunBounceBacktest (bounce.go) *)

\* indicator periods of RunBounceBacktest and its warm-up
BounceRSIPeriod == 14
BounceEMAFast == 5
BounceEMASlow == 13
BounceWarmup == 20

\* position.totalAmt < 0.0001
EmptyEps == Frac(1, 10000)

\* the current bar k = klines[i]
K == klines[i + 1]

RECURSIVE WindowHigh(_, _, _, _, _)
WindowHigh(kl, idx, j, lookback, cur) ==
    IF j <= lookback /\ idx - j >= 0
    THEN WindowHigh(kl, idx, j + 1, lookback,
                    IF kl[idx - j + 1].High > cur THEN kl[idx - j + 1].High ELSE cur)
    ELSE cur

RECURSIVE WindowLow(_, _, _, _, _)
WindowLow(kl, idx, j, lookback, cur) ==
    IF j <= lookback /\ idx - j >= 0
    THEN WindowLow(kl, idx, j + 1, lookback,
                   IF kl[idx - j + 1].Low < cur THEN kl[idx - j + 1].Low ELSE cur)
    ELSE cur

HighPrice == WindowHigh(klines, i, 2, config.DropLookback, klines[i].High)
LowPrice == WindowLow(klines, i, 2, config.DropLookback, klines[i].Low)

DropPercent == RDiv(RSub(R(HighPrice), R(LowPrice)), R(HighPrice))
HasDrop == RGe(DropPercent, config.DropThreshold)

CurrentRSI == rsi[i + 1]
PrevRSI == rsi[i]
Uptrend == RGt(emaFast[i + 1], emaSlow[i + 1])

\* mutant of RecordTrade: a trade with PnL = 0 counts as a win
RecordTradeZeroWins(acc, trade) ==
    [balance |-> RAdd(acc.balance, trade.PnL),
     result |-> [acc.result EXCEPT
        !.Trades = Append(@, trade),
        !.TotalPnL = RAdd(@, trade.PnL),
        !.TotalFees = RAdd(@, trade.Fee),
        !.TotalTrades = @ + 1,
        !.WinTrades = IF RGe(trade.PnL, Zero) THEN @ + 1 ELSE @,
        !.LoseTrades = IF RGe(trade.PnL, Zero) THEN @ ELSE @ + 1]]

\* mutant of RecordTrade: the balance gains the profit before the fee
RecordTradeGrossBalance(acc, trade) ==
    [balance |-> RAdd(acc.balance, RAdd(trade.PnL, trade.Fee)),
     result |-> [acc.result EXCEPT
        !.Trades = Append(@, trade),
        !.TotalPnL = RAdd(@, trade.PnL),
        !.TotalFees = RAdd(@, trade.Fee),
        !.TotalTrades = @ + 1,
        !.WinTrades = IF RGt(trade.PnL, Zero) THEN @ + 1 ELSE @,
        !.LoseTrades = IF RGt(trade.PnL, Zero) THEN @ ELSE @ + 1]]

\* balance += trade.PnL; result.Trades = append(...); the counters
RecordTrade(acc, trade) ==
    [balance |-> RAdd(acc.balance, trade.PnL),
     result |-> [acc.result EXCEPT
        !.Trades = Append(@, trade),
        !.TotalPnL = RAdd(@, trade.PnL),
        !.TotalFees = RAdd(@, trade.Fee),
        !.TotalTrades = @ + 1,
        !.WinTrades = IF RGt(trade.PnL, Zero) THEN @ + 1 ELSE @,
        !.LoseTrades = IF RGt(trade.PnL, Zero) THEN @ ELSE @ + 1]]

\* mutant of BounceTradeOf: the fee counts the exit side only
BounceTradeExitFeeOnly(entry, k, side, amount, feeRate, reason) ==
    LET fee == RMul(RMul(R(k.Close), amount), feeRate)
        gross == IF side = "LONG"
                 THEN RMul(RSub(R(k.Close), entry.entryPrice), amount)
                 ELSE RMul(RSub(entry.entryPrice, R(k.Close)), amount)
    IN  [EntryTime |-> entry.entryTime, ExitTime |-> k.Timestamp, Side |-> side,
         EntryPrice |-> entry.entryPrice, ExitPrice |-> R(k.Close),
         Amount |-> amount, PnL |-> RSub(gross, fee), Fee |-> fee,
         Reason |-> reason]

\* mutant of BounceTradeOf: the two times are written the wrong way round
BounceTradeTimesSwapped(entry, k, side, amount, feeRate, reason) ==
    LET fee == RMul(RMul(RAdd(entry.entryPrice, R(k.Close)), amount), feeRate)
        gross == IF side = "LONG"
                 THEN RMul(RSub(R(k.Close), entry.entryPrice), amount)
                 ELSE RMul(RSub(entry.entryPrice, R(k.Close)), amount)
    IN  [EntryTime |-> k.Timestamp, ExitTime |-> entry.entryTime, Side |-> side,
         EntryPrice |-> entry.entryPrice, ExitPrice |-> R(k.Close),
         Amount |-> amount, PnL |-> RSub(gross, fee), Fee |-> fee,
         Reason |-> reason]

\* the BounceTrade closing `amount` of `entry` at bar k
BounceTradeOf(entry, k, side, amount, feeRate, reason) ==
    LET fee == RMul(RMul(RAdd(entry.entryPrice, R(k.Close)), amount), feeRate)
        gross == IF side = "LONG"
                 THEN RMul(RSub(R(k.Close), entry.entryPrice), amount)
                 ELSE RMul(RSub(entry.entryPrice, R(k.Close)), amount)
    IN  [EntryTime |-> entry.entryTime, ExitTime |-> k.Timestamp, Side |-> side,
         EntryPrice |-> entry.entryPrice, ExitPrice |-> R(k.Close),
         Amount |-> amount, PnL |-> RSub(gross, fee), Fee |-> fee,
         Reason |-> reason]

\* mutant of PartialLoop: the tranche at the boundary is closed whole
RECURSIVE PartialLoopNoSplit(_, _, _, _, _, _, _)
PartialLoopNoSplit(entries, idx, closeAmt, k, side, reason, acc) ==
    IF idx > Len(entries) THEN acc
    ELSE LET entry == entries[idx]
         IN  IF RLt(acc.closed, closeAmt) /\ RGt(entry.amount, Zero)
             THEN LET rec == RecordTrade(acc,
                               BounceTradeOf(entry, k, side, entry.amount,
                                             config.FeeRate, reason))
                  IN  PartialLoopNoSplit(entries, idx + 1, closeAmt, k, side, reason,
                        [closed |-> RAdd(acc.closed, entry.amount),
                         newEntries |-> acc.newEntries,
                         balance |-> rec.balance, result |-> rec.result])
             ELSE PartialLoopNoSplit(entries, idx + 1, closeAmt, k, side, reason,
                        [acc EXCEPT !.newEntries = Append(@, entry)])

\* mutant of PartialLoop: the tranche at the boundary is kept at its full amount
RECURSIVE PartialLoopKeepsWhole(_, _, _, _, _, _, _)
PartialLoopKeepsWhole(entries, idx, closeAmt, k, side, reason, acc) ==
    IF idx > Len(entries) THEN acc
    ELSE LET entry == entries[idx]
         IN  IF RLt(acc.closed, closeAmt) /\ RGt(entry.amount, Zero)
             THEN LET split == RGt(RAdd(acc.closed, entry.amount), closeAmt)
                      closeThis == IF split THEN RSub(closeAmt, acc.closed)
                                   ELSE entry.amount
                      kept == IF split THEN Append(acc.newEntries, entry)
                              ELSE acc.newEntries
                      rec == RecordTrade(acc,
                               BounceTradeOf(entry, k, side, closeThis,
                                             config.FeeRate, reason))
                  IN  PartialLoopKeepsWhole(entries, idx + 1, closeAmt, k, side, reason,
                        [closed |-> RAdd(acc.closed, closeThis), newEntries |-> kept,
                         balance |-> rec.balance, result |-> rec.result])
             ELSE PartialLoopKeepsWhole(entries, idx + 1, closeAmt, k, side, reason,
                        [acc EXCEPT !.newEntries = Append(@, entry)])

\* the loop over position.entries of a partial take-profit
RECURSIVE PartialLoop(_, _, _, _, _, _, _)
PartialLoop(entries, idx, closeAmt, k, side, reason, acc) ==
    IF idx > Len(entries) THEN acc
    ELSE LET entry == entries[idx]
         IN  IF RLt(acc.closed, closeAmt) /\ RGt(entry.amount, Zero)
             THEN LET split == RGt(RAdd(acc.closed, entry.amount), closeAmt)
                      closeThis == IF split THEN RSub(closeAmt, acc.closed)
                                   ELSE entry.amount
                      kept == IF split
                              THEN Append(acc.newEntries,
                                     [entry EXCEPT !.amount = RSub(entry.amount, closeThis)])
                              ELSE acc.newEntries
                      trade == BounceTradeOf(entry, k, side, closeThis,
                                             config.FeeRate, reason)
                      rec == RecordTrade(acc, trade)
                  IN  PartialLoop(entries, idx + 1, closeAmt, k, side, reason,
                        [closed |-> RAdd(acc.closed, closeThis), newEntries |-> kept,
                         balance |-> rec.balance, result |-> rec.result])
             ELSE PartialLoop(entries, idx + 1, closeAmt, k, side, reason,
                        [acc EXCEPT !.newEntries = Append(@, entry)])

\* mutant of SumAmounts: totalAmt = e.amount instead of totalAmt += e.amount
SumAmountsAssign(entries, acc) ==
    IF entries = <<>> THEN acc ELSE entries[Len(entries)].amount

RECURSIVE SumAmounts(_, _)
SumAmounts(entries, acc) ==
    IF entries = <<>> THEN acc
    ELSE SumAmounts(Tail(entries), RAdd(acc, Head(entries).amount))

\* a closing reason: its tag, and for "PARTIAL" (fmt.Sprintf of bounce.go 215)
\* the exit ordinal and the bounce in tenths of a percent
Reason(tag) == <<tag, 0, 0>>
NoReason == Reason("")

\* %.1f of x*100
PercentTenths(x) == (x[1] * 2000 + x[2]) \div (2 * x[2])

\* for i := config.DropLookback; i < n; i++ { k := klines[i]; ... }
BounceLoop ==
    /\ engine = "bounce" /\ pc = "loop" /\ i < n
    /\ IF Len(klines) > i
       THEN UNCHANGED <<klines, rsi, emaFast, emaSlow>>
       ELSE \E k \in BarsAfter(klines[i], i, n) :
              /\ klines' = Append(klines, k)
              /\ rsi' = Append(rsi, RSIAt(klines', BounceRSIPeriod, i))
              /\ emaFast' = Append(emaFast, EMAExtend(emaFast, klines', BounceEMAFast))
              /\ emaSlow' = Append(emaSlow, EMAExtend(emaSlow, klines', BounceEMASlow))
    /\ pc' = "exit"
    /\ shouldClose' = FALSE /\ closeReason' = NoReason
    /\ UNCHANGED <<run, firstResult, engine, config, strategyConfig, n, volRatio, i, balance,
                   position, maxBalance, result>>

\* the exit block up to the partial take-profit (bounce.go 156-252)
BounceExit ==
    /\ engine = "bounce" /\ pc = "exit"
    /\ IF position = Nil
       THEN /\ pc' = "entry"
            /\ UNCHANGED <<balance, position, shouldClose, closeReason, result>>
       ELSE LET p == position[1]
                rsiStop == RLt(CurrentRSI, config.RSIExit)
                holdTime == K.Timestamp - p.entryTime
                maxHold == holdTime >= config.MaxHoldTime
                timeSinceEntry == K.Timestamp - p.entryTime
                currentBounce == RDiv(RSub(R(K.Close), p.lowPrice),
                                      RSub(p.highPrice, p.lowPrice))
                exitDue == /\ timeSinceEntry >= config.StartExitTime
                           /\ RGe(currentBounce, config.ProfitThreshold)
                timeSinceExitStart == timeSinceEntry - config.StartExitTime
                expectedExitCount == (timeSinceExitStart \div config.ExitInterval) + 1
                closeAmt == RMul(p.totalAmt, config.ExitPercent)
                reason == <<"PARTIAL", p.exitCount + 1, PercentTenths(currentBounce)>>
                done == PartialLoop(p.entries, 1, closeAmt, K, p.side, reason,
                           [closed |-> Zero, newEntries |-> <<>>,
                            balance |-> balance, result |-> result])
                newTotal == SumAmounts(done.newEntries, Zero)
            IN  /\ pc' = "close"
                /\ IF exitDue /\ expectedExitCount > p.exitCount
                   THEN /\ position' = <<[p EXCEPT !.entries = done.newEntries,
                                                    !.totalAmt = newTotal,
                                                    !.exitCount = @ + 1]>>
                        /\ balance' = done.balance
                        /\ result' = done.result
                        /\ shouldClose' = (rsiStop \/ maxHold \/ RLt(newTotal, EmptyEps))
                        /\ closeReason' = IF RLt(newTotal, EmptyEps) THEN Reason("PARTIAL_DONE")
                                          ELSE IF maxHold THEN Reason("MAX_HOLD")
                                          ELSE IF rsiStop THEN Reason("RSI_STOP")
                                          ELSE NoReason
                   ELSE /\ shouldClose' = (rsiStop \/ maxHold)
                        /\ closeReason' = IF maxHold THEN Reason("MAX_HOLD")
                                          ELSE IF rsiStop THEN Reason("RSI_STOP")
                                          ELSE NoReason
                        /\ UNCHANGED <<balance, position, result>>
    /\ UNCHANGED <<run, firstResult, engine, config, strategyConfig, n, klines, rsi, emaFast,
                   emaSlow, volRatio, i, maxBalance>>

\* the loop of the full close over position.entries
RECURSIVE CloseLoop(_, _, _, _, _, _)
CloseLoop(entries, idx, k, side, reason, acc) ==
    IF idx > Len(entries) THEN acc
    ELSE LET entry == entries[idx]
         IN  IF RLe(entry.amount, Zero)
             THEN CloseLoop(entries, idx + 1, k, side, reason, acc)
             ELSE CloseLoop(entries, idx + 1, k, side, reason,
                    RecordTrade(acc, BounceTradeOf(entry, k, side, entry.amount,
                                                   config.FeeRate, reason)))

\* the full close (bounce.go 254-289)
BounceClose ==
    /\ engine = "bounce" /\ pc = "close"
    /\ IF shouldClose /\ Len(position[1].entries) > 0
       THEN LET p == position[1]
                done == CloseLoop(p.entries, 1, K, p.side, closeReason,
                                  [balance |-> balance, result |-> result])
            IN  /\ balance' = done.balance
                /\ result' = done.result
                /\ position' = Nil
       ELSE UNCHANGED <<balance, position, result>>
    /\ pc' = "entry"
    /\ UNCHANGED <<run, firstResult, engine, config, strategyConfig, n, klines, rsi, emaFast,
                   emaSlow, volRatio, i, maxBalance, shouldClose, closeReason>>

\* mutant of BounceEntryCond: the oversold test on the previous RSI is lost
BounceEntryCondNoOversold ==
    /\ HasDrop
    /\ RGe(CurrentRSI, config.RSIEntry)
    /\ Uptrend

\* hasDrop && prevRSI < RSIOversold && currentRSI >= RSIEntry && uptrend
BounceEntryCond ==
    /\ HasDrop
    /\ RLt(PrevRSI, config.RSIOversold)
    /\ RGe(CurrentRSI, config.RSIEntry)
    /\ Uptrend

\* mutant of BounceOpen: the first tranche is sized with the leverage
BounceOpenLevered ==
    LET targetPrice == RAdd(R(LowPrice),
                            RMul(RSub(R(HighPrice), R(LowPrice)), config.BounceTarget))
        notional == RMul(RMul(balance, config.FirstBatchSize), config.Leverage)
        amount == RDiv(notional, R(K.Close))
    IN  [side |-> "LONG", entryTime |-> K.Timestamp, lowPrice |-> R(LowPrice),
         highPrice |-> R(HighPrice), targetPrice |-> targetPrice,
         entries |-> <<[entryTime |-> K.Timestamp, entryPrice |-> R(K.Close),
                        amount |-> amount, batch |-> 1]>>,
         totalAmt |-> amount, avgPrice |-> R(K.Close),
         lastBatchTime |-> K.Timestamp, batchCount |-> 1,
         startExitTime |-> 0, exitCount |-> 0]

\* the position the first tranche creates
BounceOpen ==
    LET targetPrice == RAdd(R(LowPrice),
                            RMul(RSub(R(HighPrice), R(LowPrice)), config.BounceTarget))
        notional == RMul(balance, config.FirstBatchSize)
        amount == RDiv(notional, R(K.Close))
    IN  [side |-> "LONG", entryTime |-> K.Timestamp, lowPrice |-> R(LowPrice),
         highPrice |-> R(HighPrice), targetPrice |-> targetPrice,
         entries |-> <<[entryTime |-> K.Timestamp, entryPrice |-> R(K.Close),
                        amount |-> amount, batch |-> 1]>>,
         totalAmt |-> amount, avgPrice |-> R(K.Close),
         lastBatchTime |-> K.Timestamp, batchCount |-> 1,
         startExitTime |-> 0, exitCount |-> 0]

\* mutant of BounceScaleCond: the MaxBatches cap is not checked
BounceScaleCondUncapped(p) ==
    /\ K.Timestamp - p.lastBatchTime >= config.BatchInterval
    /\ RGe(CurrentRSI, config.RSIEntry) /\ Uptrend

\* mutant of BounceScaleCond: the time since the last tranche is not checked
BounceScaleCondNoInterval(p) ==
    /\ p.batchCount < config.MaxBatches
    /\ RGe(CurrentRSI, config.RSIEntry) /\ Uptrend

\* position.batchCount < config.MaxBatches and the two conditions under it
BounceScaleCond(p) ==
    /\ p.batchCount < config.MaxBatches
    /\ K.Timestamp - p.lastBatchTime >= config.BatchInterval
    /\ RGe(CurrentRSI, config.RSIEntry) /\ Uptrend

\* the position after a scale-in tranche
BounceScaleIn(p) ==
    LET notional == RMul(balance, config.OtherBatchSize)
        amount == RDiv(notional, R(K.Close))
        total == RAdd(p.totalAmt, amount)
    IN  [p EXCEPT
          !.entries = Append(@, [entryTime |-> K.Timestamp, entryPrice |-> R(K.Close),
                                 amount |-> amount, batch |-> p.batchCount + 1]),
          !.totalAmt = total,
          !.avgPrice = RDiv(RAdd(RMul(p.avgPrice, RSub(total, amount)),
                                 RMul(R(K.Close), amount)), total),
          !.lastBatchTime = K.Timestamp,
          !.batchCount = @ + 1]

\* the entry block (bounce.go 292-348)
BounceEntry ==
    /\ engine = "bounce" /\ pc = "entry"
    /\ IF position = Nil
       THEN IF BounceEntryCond
            THEN /\ position' = <<BounceOpen>>
                 /\ balance' = RSub(balance,
                       RMul(RMul(R(K.Close), BounceOpen.totalAmt), config.FeeRate))
            ELSE UNCHANGED <<position, balance>>
       ELSE IF BounceScaleCond(position[1])
            THEN LET q == BounceScaleIn(position[1])
                     amount == q.entries[Len(q.entries)].amount
                 IN  /\ position' = <<q>>
                     /\ balance' = RSub(balance,
                           RMul(RMul(R(K.Close), amount), config.FeeRate))
            ELSE UNCHANGED <<position, balance>>
    /\ pc' = "book"
    /\ UNCHANGED <<run, firstResult, engine, config, strategyConfig, n, klines, rsi, emaFast,
                   emaSlow, volRatio, i, maxBalance, shouldClose, closeReason,
                   result>>

\* mutant of Bookkeeping: the curve gains a value only when balance moved
BookkeepingOnChange ==
    LET peak == IF RGt(balance, maxBalance) THEN balance ELSE maxBalance
        drawdown == RDiv(RSub(peak, balance), peak)
        last == result.BalanceCurve[Len(result.BalanceCurve)]
    IN  /\ maxBalance' = peak
        /\ result' = [result EXCEPT
              !.BalanceCurve = IF balance = last THEN @ ELSE Append(@, balance),
              !.MaxDrawdown = IF RGt(drawdown, @) THEN drawdown ELSE @]

\* the balance curve and max drawdown of one bar (bounce.go 350-360)
Bookkeeping ==
    LET peak == IF RGt(balance, maxBalance) THEN balance ELSE maxBalance
        drawdown == RDiv(RSub(peak, balance), peak)
    IN  /\ maxBalance' = peak
        /\ result' = [result EXCEPT
              !.BalanceCurve = Append(@, balance),
              !.MaxDrawdown = IF RGt(drawdown, @) THEN drawdown ELSE @]

BounceBook ==
    /\ engine = "bounce" /\ pc = "book"
    /\ Bookkeeping
    /\ i' = i + 1
    /\ pc' = "loop"
    /\ UNCHANGED <<run, firstResult, engine, config, strategyConfig, n, klines, rsi, emaFast,
                   emaSlow, volRatio, balance, position, shouldClose, closeReason>>

RECURSIVE TotalWin(_)
TotalWin(trades) ==
    IF trades = <<>> THEN Zero
    ELSE RAdd(IF RGt(Head(trades).PnL, Zero) THEN Head(trades).PnL ELSE Zero,
              TotalWin(Tail(trades)))

RECURSIVE TotalLose(_)
TotalLose(trades) ==
    IF trades = <<>> THEN Zero
    ELSE RAdd(IF RGt(Head(trades).PnL, Zero) THEN Zero ELSE RNeg(Head(trades).PnL),
              TotalLose(Tail(trades)))

\* mutant of Aggregates: ProfitFactor is computed whenever a losing trade
\* was counted
AggregatesByLoseCount(res) ==
    [res EXCEPT
       !.WinRate = IF res.TotalTrades > 0
                   THEN RDiv(R(res.WinTrades), R(res.TotalTrades)) ELSE @,
       !.ProfitFactor = IF res.LoseTrades > 0
                        THEN RDiv(TotalWin(res.Trades), TotalLose(res.Trades)) ELSE @]

\* WinRate and ProfitFactor, computed once after the loop
Aggregates(res) ==
    [res EXCEPT
       !.WinRate = IF res.TotalTrades > 0
                   THEN RDiv(R(res.WinTrades), R(res.TotalTrades)) ELSE @,
       !.ProfitFactor = IF RGt(TotalLose(res.Trades), Zero)
                        THEN RDiv(TotalWin(res.Trades), TotalLose(res.Trades)) ELSE @]

BounceFinish ==
    /\ engine = "bounce" /\ pc = "loop" /\ i >= n
    /\ result' = Aggregates(result)
    /\ pc' = "done"
    /\ UNCHANGED <<run, firstResult, engine, config, strategyConfig, n, klines, rsi, emaFast,
                   emaSlow, volRatio, i, balance, position, maxBalance,
                   shouldClose, closeReason>>

\* if n < config.DropLookback+20 { return result }
BounceStart ==
    /\ engine = "bounce" /\ pc = "start"
    /\ pc' = IF n < config.DropLookback + BounceWarmup THEN "done" ELSE "loop"
    /\ UNCHANGED <<run, firstResult, engine, config, strategyConfig, n, klines, rsi, emaFast,
                   emaSlow, volRatio, i, balance, position, maxBalance,
                   shouldClose, closeReason, result>>

\* the state of RunBounceBacktest(klines, cfg) at its first statement
BounceInit ==
    /\ run = 1 /\ firstResult = Nil
    /\ engine = "bounce"
    /\ config \in BounceConfigs
    /\ strategyConfig = Nil
    /\ n \in (config.DropLookback + BounceWarmup - 1) ..
             (config.DropLookback + BounceWarmup + MaxExtra)
    /\ i = config.DropLookback
    /\ klines = QuietPrefix(i)
    /\ rsi = [j \in 1..i |-> RSIAt(klines, BounceRSIPeriod, j - 1)]
    /\ emaFast = EMAFill(klines, BounceEMAFast, <<>>)
    /\ emaSlow = EMAFill(klines, BounceEMASlow, <<>>)
    /\ volRatio = Nil
    /\ balance = config.StartBalance
    /\ position = Nil
    /\ maxBalance = config.StartBalance
    /\ shouldClose = FALSE /\ closeReason = NoReason
    /\ result = EmptyResult(config.StartBalance)
    /\ pc = "start"

\* mutant of BounceReplay: the peak balance is kept from the call before
BounceReplayKeepsPeak ==
    /\ engine = "bounce" /\ pc = "done" /\ run = 1
    /\ run' = 2 /\ firstResult' = <<result>>
    /\ rsi' = CalculateRSI(klines, BounceRSIPeriod)
    /\ emaFast' = CalculateEMA(klines, BounceEMAFast)
    /\ emaSlow' = CalculateEMA(klines, BounceEMASlow)
    /\ i' = config.DropLookback
    /\ balance' = config.StartBalance
    /\ position' = Nil
    /\ maxBalance' = maxBalance
    /\ shouldClose' = FALSE /\ closeReason' = NoReason
    /\ result' = EmptyResult(config.StartBalance)
    /\ pc' = "start"
    /\ UNCHANGED <<engine, config, strategyConfig, n, klines, volRatio>>

\* RunBounceBacktest called again with the klines and config of the call
\* that returned: result, the indicator arrays, balance, maxBalance and
\* position are locals, built anew from the arguments
BounceReplay ==
    /\ engine = "bounce" /\ pc = "done" /\ run = 1
    /\ run' = 2 /\ firstResult' = <<result>>
    /\ rsi' = CalculateRSI(klines, BounceRSIPeriod)
    /\ emaFast' = CalculateEMA(klines, BounceEMAFast)
    /\ emaSlow' = CalculateEMA(klines, BounceEMASlow)
    /\ i' = config.DropLookback
    /\ balance' = config.StartBalance
    /\ position' = Nil
    /\ maxBalance' = config.StartBalance
    /\ shouldClose' = FALSE /\ closeReason' = NoReason
    /\ result' = EmptyResult(config.StartBalance)
    /\ pc' = "start"
    /\ UNCHANGED <<engine, config, strategyConfig, n, klines, volRatio>>

---------------------------------------------------------------------------
(* RunBacktest (backtest.go) *)

\* if n < 50 { return result };  for i := 50; i < n; i++
BtMinKlines == 50
BtFirstIndex == 50

BacktestConfigs ==
    {[Symbol |-> "BTCUSDT", StartBalance |-> R(64), FeeRate |-> fee,
      Leverage |-> R(5), PositionSize |-> Frac(1, 2)] :
        fee \in {Zero, Frac(1, 16)}}

\* the slow period 64 is longer than every series of the model
StrategyConfigs ==
    {[RSI_PERIOD |-> 2, RSI_OVERSOLD_LONG |-> R(40), RSI_ENTRY_LONG |-> R(45),
      RSI_OVERBOUGHT_SHORT |-> R(55), RSI_ENTRY_SHORT |-> R(45),
      EMA_FAST |-> 2, EMA_SLOW |-> slow, VOL_RATIO_THRESHOLD |-> One] :
        slow \in {3, 64}}

\* firstBatchSize := 0.20; secondBatchSize := 0.20
FirstBatchSize == Frac(20, 100)
SecondBatchSize == Frac(20, 100)
\* pnlPercent <= -0.03; pnlPercent >= 0.015
StopLoss == Frac(-3, 100)
AddProfit == Frac(15, 1000)

\* one of rsi, emaFast, emaSlow, volRatio is nil: CalculateRSI returns nil
\* for n < period+1, CalculateEMA and VolumeRatio for n < period
BtIndicatorAbsent ==
    \/ n < strategyConfig.RSI_PERIOD + 1
    \/ n < strategyConfig.EMA_FAST
    \/ n < strategyConfig.EMA_SLOW

\* k := klines[i] and the reads of rsi[i], emaFast[i], emaSlow[i], volRatio[i];
\* indexing a nil slice is a run-time panic
BtLoop ==
    /\ engine = "backtest" /\ pc = "loop" /\ i < n
    /\ IF BtIndicatorAbsent
       THEN UNCHANGED <<klines, rsi, emaFast, emaSlow, volRatio>>
       ELSE IF Len(klines) > i
       THEN UNCHANGED <<klines, rsi, emaFast, emaSlow, volRatio>>
       ELSE \E k \in BarsAfter(klines[i], i, n) :
              /\ klines' = Append(klines, k)
              /\ rsi' = Append(rsi, RSIAt(klines', strategyConfig.RSI_PERIOD, i))
              /\ emaFast' = Append(emaFast,
                                   EMAExtend(emaFast, klines', strategyConfig.EMA_FAST))
              /\ emaSlow' = Append(emaSlow,
                                   EMAExtend(emaSlow, klines', strategyConfig.EMA_SLOW))
              /\ volRatio' = Append(volRatio,
                                    VolumeRatioAt(klines', strategyConfig.RSI_PERIOD, i))
    /\ pc' = IF BtIndicatorAbsent THEN "panic" ELSE "exit"
    /\ UNCHANGED <<run, firstResult, engine, config, strategyConfig, n, i, balance, position,
                   maxBalance, shouldClose, closeReason, result>>

CrossUp == RLe(emaFast[i], emaSlow[i]) /\ RGt(emaFast[i + 1], emaSlow[i + 1])
CrossDown == RGe(emaFast[i], emaSlow[i]) /\ RLt(emaFast[i + 1], emaSlow[i + 1])
Downtrend == RLt(emaFast[i + 1], emaSlow[i + 1])
VolumeOK == RGe(volRatio[i + 1], strategyConfig.VOL_RATIO_THRESHOLD)

\* mutant of BtTradeOf: the trade is recorded as LONG whatever the position is
BtTradeAlwaysLong(entry, k, side, feeRate) ==
    LET gross == IF side = "LONG"
                 THEN RMul(RSub(R(k.Close), entry.entryPrice), entry.amount)
                 ELSE RMul(RSub(entry.entryPrice, R(k.Close)), entry.amount)
        fee == RMul(RMul(RAdd(entry.entryPrice, R(k.Close)), entry.amount), feeRate)
    IN  [EntryTime |-> entry.entryTime, ExitTime |-> k.Timestamp, Side |-> "LONG",
         EntryPrice |-> entry.entryPrice, ExitPrice |-> R(k.Close),
         Amount |-> entry.amount, PnL |-> RSub(gross, fee), Fee |-> fee]

\* the Trade closing `entry` at bar k
BtTradeOf(entry, k, side, feeRate) ==
    LET gross == IF side = "LONG"
                 THEN RMul(RSub(R(k.Close), entry.entryPrice), entry.amount)
                 ELSE RMul(RSub(entry.entryPrice, R(k.Close)), entry.amount)
        fee == RMul(RMul(RAdd(entry.entryPrice, R(k.Close)), entry.amount), feeRate)
    IN  [EntryTime |-> entry.entryTime, ExitTime |-> k.Timestamp, Side |-> side,
         EntryPrice |-> entry.entryPrice, ExitPrice |-> R(k.Close),
         Amount |-> entry.amount, PnL |-> RSub(gross, fee), Fee |-> fee]

RECURSIVE BtCloseLoop(_, _, _, _, _)
BtCloseLoop(entries, idx, k, side, acc) ==
    IF idx > Len(entries) THEN acc
    ELSE BtCloseLoop(entries, idx + 1, k, side,
            RecordTrade(acc, BtTradeOf(entries[idx], k, side, config.FeeRate)))

\* mutant of BtShouldClose: no stop loss, the EMA reversal only
BtShouldCloseNoStop(p) ==
    \/ (p.side = "LONG" /\ CrossDown)
    \/ (p.side = "SHORT" /\ CrossUp)

\* shouldClose of the exit block: EMA reversal or stop loss
BtShouldClose(p) ==
    LET raw == RDiv(RSub(R(K.Close), p.avgPrice), p.avgPrice)
        pnlPercent == IF p.side = "SHORT" THEN RNeg(raw) ELSE raw
    IN  \/ (p.side = "LONG" /\ CrossDown)
        \/ (p.side = "SHORT" /\ CrossUp)
        \/ RLe(pnlPercent, StopLoss)

\* the exit block (backtest.go 221-272)
BtExit ==
    /\ engine = "backtest" /\ pc = "exit"
    /\ IF position # Nil /\ BtShouldClose(position[1]) /\ Len(position[1].entries) > 0
       THEN LET p == position[1]
                done == BtCloseLoop(p.entries, 1, K, p.side,
                                    [balance |-> balance, result |-> result])
            IN  /\ balance' = done.balance
                /\ result' = done.result
                /\ position' = Nil
                /\ shouldClose' = TRUE
       ELSE /\ shouldClose' = (position # Nil /\ BtShouldClose(position[1]))
            /\ UNCHANGED <<balance, position, result>>
    /\ pc' = "entry"
    /\ UNCHANGED <<run, firstResult, engine, config, strategyConfig, n, klines, rsi, emaFast,
                   emaSlow, volRatio, i, maxBalance, closeReason>>

\* a tranche of `size` of the balance added to st.position (created when nil)
BtAddTranche(st, side, size, batch) ==
    LET p == IF st.position = Nil
             THEN [side |-> side, entries |-> <<>>, totalAmt |-> Zero, avgPrice |-> Zero]
             ELSE st.position[1]
        notional == RMul(st.balance, size)
        amount == RDiv(notional, R(K.Close))
        total == RAdd(p.totalAmt, amount)
    IN  [position |-> <<[p EXCEPT
            !.entries = Append(@, [entryTime |-> K.Timestamp, entryPrice |-> R(K.Close),
                                   amount |-> amount, batch |-> batch]),
            !.totalAmt = total,
            !.avgPrice = RDiv(RAdd(RMul(p.avgPrice, RSub(total, amount)),
                                   RMul(R(K.Close), amount)), total)]>>,
         balance |-> RSub(st.balance, RMul(RMul(R(K.Close), amount), config.FeeRate))]

\* currentPositionPct
PositionPct(st) ==
    IF st.position = Nil THEN Zero
    ELSE RDiv(RMul(st.position[1].totalAmt, R(K.Close)), st.balance)

RsiBull == /\ RLt(PrevRSI, strategyConfig.RSI_OVERSOLD_LONG)
           /\ RGe(CurrentRSI, strategyConfig.RSI_ENTRY_LONG)
RsiBear == /\ RGt(PrevRSI, strategyConfig.RSI_OVERBOUGHT_SHORT)
           /\ RLe(CurrentRSI, strategyConfig.RSI_ENTRY_SHORT)

\* the long block (backtest.go 282-318), pct = currentPositionPct
BtLongBlock(st, pct) ==
    IF (st.position = Nil \/ st.position[1].side = "LONG") /\ Uptrend
    THEN LET s1 == IF RsiBull /\ VolumeOK /\ RLt(pct, FirstBatchSize)
                   THEN BtAddTranche(st, "LONG", FirstBatchSize, 1) ELSE st
             pnlPercent == RDiv(RSub(R(K.Close), s1.position[1].avgPrice),
                                s1.position[1].avgPrice)
         IN  IF /\ s1.position # Nil
                /\ Len(s1.position[1].entries) = 1
                /\ RGe(pnlPercent, AddProfit)
                /\ RLt(pct, RAdd(FirstBatchSize, SecondBatchSize))
             THEN BtAddTranche(s1, "LONG", SecondBatchSize, 2)
             ELSE s1
    ELSE st

\* the short block (backtest.go 322-358)
BtShortBlock(st, pct) ==
    IF (st.position = Nil \/ st.position[1].side = "SHORT") /\ Downtrend
    THEN LET s1 == IF RsiBear /\ VolumeOK /\ RLt(pct, FirstBatchSize)
                   THEN BtAddTranche(st, "SHORT", FirstBatchSize, 1) ELSE st
             pnlPercent == RDiv(RSub(s1.position[1].avgPrice, R(K.Close)),
                                s1.position[1].avgPrice)
         IN  IF /\ s1.position # Nil
                /\ Len(s1.position[1].entries) = 1
                /\ RGe(pnlPercent, AddProfit)
                /\ RLt(pct, RAdd(FirstBatchSize, SecondBatchSize))
             THEN BtAddTranche(s1, "SHORT", SecondBatchSize, 2)
             ELSE s1
    ELSE st

\* the entry block (backtest.go 274-358)
BtEntry ==
    /\ engine = "backtest" /\ pc = "entry"
    /\ LET st == [position |-> position, balance |-> balance]
           pct == PositionPct(st)
           done == BtShortBlock(BtLongBlock(st, pct), pct)
       IN  /\ position' = done.position
           /\ balance' = done.balance
    /\ pc' = "book"
    /\ UNCHANGED <<run, firstResult, engine, config, strategyConfig, n, klines, rsi, emaFast,
                   emaSlow, volRatio, i, maxBalance, shouldClose, closeReason,
                   result>>

BtBook ==
    /\ engine = "backtest" /\ pc = "book"
    /\ Bookkeeping
    /\ i' = i + 1
    /\ pc' = "loop"
    /\ UNCHANGED <<run, firstResult, engine, config, strategyConfig, n, klines, rsi, emaFast,
                   emaSlow, volRatio, balance, position, shouldClose, closeReason>>

BtFinish ==
    /\ engine = "backtest" /\ pc = "loop" /\ i >= n
    /\ result' = Aggregates(result)
    /\ pc' = "done"
    /\ UNCHANGED <<run, firstResult, engine, config, strategyConfig, n, klines, rsi, emaFast,
                   emaSlow, volRatio, i, balance, position, maxBalance,
                   shouldClose, closeReason>>

\* if n < 50 { return result }
BtStart ==
    /\ engine = "backtest" /\ pc = "start"
    /\ pc' = IF n < BtMinKlines THEN "done" ELSE "loop"
    /\ UNCHANGED <<run, firstResult, engine, config, strategyConfig, n, klines, rsi, emaFast,
                   emaSlow, volRatio, i, balance, position, maxBalance,
                   shouldClose, closeReason, result>>

\* the state of RunBacktest(klines, cfg, strategyCfg) at its first statement
BtInit ==
    /\ run = 1 /\ firstResult = Nil
    /\ engine = "backtest"
    /\ config \in BacktestConfigs
    /\ strategyConfig \in StrategyConfigs
    /\ n \in {BtMinKlines - 1, BtMinKlines} \cup
             (BtMinKlines + FreeBars(engine)) ..
                 (BtMinKlines + FreeBars(engine) + MaxExtra)
    /\ i = BtFirstIndex
    /\ klines = QuietPrefix(IF n < i THEN n ELSE i)
    /\ rsi = [j \in 1..Len(klines) |-> RSIAt(klines, strategyConfig.RSI_PERIOD, j - 1)]
    /\ emaFast = EMAFill(klines, strategyConfig.EMA_FAST, <<>>)
    /\ emaSlow = EMAFill(klines, strategyConfig.EMA_SLOW, <<>>)
    /\ volRatio = [j \in 1..Len(klines) |->
                       VolumeRatioAt(klines, strategyConfig.RSI_PERIOD, j - 1)]
    /\ balance = config.StartBalance
    /\ position = Nil
    /\ maxBalance = config.StartBalance
    /\ shouldClose = FALSE /\ closeReason = NoReason
    /\ result = EmptyResult(config.StartBalance)
    /\ pc = "start"

\* RunBacktest called again with the klines and configs of the call that
\* returned
BtReplay ==
    /\ engine = "backtest" /\ pc = "done" /\ run = 1
    /\ run' = 2 /\ firstResult' = <<result>>
    /\ rsi' = CalculateRSI(klines, strategyConfig.RSI_PERIOD)
    /\ emaFast' = CalculateEMA(klines, strategyConfig.EMA_FAST)
    /\ emaSlow' = CalculateEMA(klines, strategyConfig.EMA_SLOW)
    /\ volRatio' = VolumeRatio(klines, strategyConfig.RSI_PERIOD)
    /\ i' = BtFirstIndex
    /\ balance' = config.StartBalance
    /\ position' = Nil
    /\ maxBalance' = config.StartBalance
    /\ shouldClose' = FALSE /\ closeReason' = NoReason
    /\ result' = EmptyResult(config.StartBalance)
    /\ pc' = "start"
    /\ UNCHANGED <<engine, config, strategyConfig, n, klines>>

---------------------------------------------------------------------------
Init == BounceInit \/ BtInit

Next ==
    \/ BounceStart
    \/ BounceLoop
    \/ BounceExit
    \/ BounceClose
    \/ BounceEntry
    \/ BounceBook
    \/ BounceFinish
    \/ BtStart
    \/ BtLoop
    \/ BtExit
    \/ BtEntry
    \/ BtBook
    \/ BtFinish

Spec == Init /\ [][Next]_vars

\* a run followed by the same call once more
NextReplay ==
    \/ Next
    \/ BounceReplay
    \/ BtReplay

SpecReplay == Init /\ [][NextReplay]_vars

\* the leverage a second call is given in place of the first call's 5
OtherLeverages == {R(1)}

\* RunBounceBacktest called again on the same klines with a config that
\* differs from the first call's in Leverage only
BounceRelever ==
    /\ engine = "bounce" /\ pc = "done" /\ run = 1
    /\ run' = 2 /\ firstResult' = <<result>>
    /\ \E lev \in OtherLeverages : config' = [config EXCEPT !.Leverage = lev]
    /\ rsi' = CalculateRSI(klines, BounceRSIPeriod)
    /\ emaFast' = CalculateEMA(klines, BounceEMAFast)
    /\ emaSlow' = CalculateEMA(klines, BounceEMASlow)
    /\ i' = config.DropLookback
    /\ balance' = config.StartBalance
    /\ position' = Nil
    /\ maxBalance' = config.StartBalance
    /\ shouldClose' = FALSE /\ closeReason' = NoReason
    /\ result' = EmptyResult(config.StartBalance)
    /\ pc' = "start"
    /\ UNCHANGED <<engine, strategyConfig, n, klines, volRatio>>

\* RunBacktest called again on the same klines with a config that differs
\* from the first call's in Leverage only
BtRelever ==
    /\ engine = "backtest" /\ pc = "done" /\ run = 1
    /\ run' = 2 /\ firstResult' = <<result>>
    /\ \E lev \in OtherLeverages : config' = [config EXCEPT !.Leverage = lev]
    /\ rsi' = CalculateRSI(klines, strategyConfig.RSI_PERIOD)
    /\ emaFast' = CalculateEMA(klines, strategyConfig.EMA_FAST)
    /\ emaSlow' = CalculateEMA(klines, strategyConfig.EMA_SLOW)
    /\ volRatio' = VolumeRatio(klines, strategyConfig.RSI_PERIOD)
    /\ i' = BtFirstIndex
    /\ balance' = config.StartBalance
    /\ position' = Nil
    /\ maxBalance' = config.StartBalance
    /\ shouldClose' = FALSE /\ closeReason' = NoReason
    /\ result' = EmptyResult(config.StartBalance)
    /\ pc' = "start"
    /\ UNCHANGED <<engine, strategyConfig, n, klines>>

\* a run followed by a call on the same bars with another leverage
NextLeverage ==
    \/ Next
    \/ BounceRelever
    \/ BtRelever

SpecLeverage == Init /\ [][NextLeverage]_vars


---------------------------------------------------------------------------
(* The indicator and signal functions called on their own *)

\* a bar of the series: High = Low = Close = c, volume v
SeriesBar(j, c, v) ==
    [Timestamp |-> 60 * (j - 1), Open |-> c, High |-> c, Low |-> c, Close |-> c,
     Volume |-> v]

\* every series of at most MaxLen bars over closes {1, 2, 4} and volumes {0, 1}
SeriesUpTo(maxLen) ==
    UNION {{[j \in 1..len |-> SeriesBar(j, f[j][1], f[j][2])] :
               f \in [1..len -> {1, 2, 4} \X {0, 1}]} : len \in 0..maxLen}

SignalConfigs ==
    {[RSI_PERIOD |-> rp, RSI_OVERSOLD_LONG |-> R(40), RSI_ENTRY_LONG |-> R(45),
      RSI_OVERBOUGHT_SHORT |-> R(55), RSI_ENTRY_SHORT |-> R(45),
      EMA_FAST |-> 2, EMA_SLOW |-> slow, VOL_RATIO_THRESHOLD |-> One] :
        rp \in {1, 2}, slow \in {3, 4}}

IndicatorInit ==
    /\ run = 1 /\ firstResult = Nil
    /\ engine = "indicator"
    /\ config = Nil
    /\ strategyConfig \in SignalConfigs
    /\ klines \in SeriesUpTo(MaxLen)
    /\ n = Len(klines)
    /\ rsi = Nil /\ emaFast = Nil /\ emaSlow = Nil /\ volRatio = Nil
    /\ i = 0
    /\ balance = Zero /\ maxBalance = Zero
    /\ position = Nil
    /\ shouldClose = FALSE /\ closeReason = NoReason
    /\ result = Nil
    /\ pc = "start"

\* rsi := CalculateRSI(klines, period)
CallCalculateRSI ==
    /\ engine = "indicator" /\ pc = "start"
    /\ rsi' = CalculateRSI(klines, strategyConfig.RSI_PERIOD)
    /\ pc' = "CalculateRSI"
    /\ UNCHANGED <<run, firstResult, engine, config, strategyConfig, n, klines,
                   emaFast, emaSlow, volRatio, i, balance, position, maxBalance,
                   shouldClose, closeReason, result>>

\* emaFast := CalculateEMA(klines, EMA_FAST); emaSlow := CalculateEMA(klines, EMA_SLOW)
CallCalculateEMA ==
    /\ engine = "indicator" /\ pc = "start"
    /\ emaFast' = CalculateEMA(klines, strategyConfig.EMA_FAST)
    /\ emaSlow' = CalculateEMA(klines, strategyConfig.EMA_SLOW)
    /\ pc' = "CalculateEMA"
    /\ UNCHANGED <<run, firstResult, engine, config, strategyConfig, n, klines,
                   rsi, volRatio, i, balance, position, maxBalance,
                   shouldClose, closeReason, result>>

\* volRatio := VolumeRatio(klines, period)
CallVolumeRatio ==
    /\ engine = "indicator" /\ pc = "start"
    /\ volRatio' = VolumeRatio(klines, strategyConfig.RSI_PERIOD)
    /\ pc' = "VolumeRatio"
    /\ UNCHANGED <<run, firstResult, engine, config, strategyConfig, n, klines,
                   rsi, emaFast, emaSlow, i, balance, position, maxBalance,
                   shouldClose, closeReason, result>>

\* signal := GenerateSignal(klines, strategyConfig)
CallGenerateSignal ==
    /\ engine = "indicator" /\ pc = "start"
    /\ result' = [positionSide |-> "", signal |-> GenerateSignal(klines, strategyConfig)]
    /\ pc' = "GenerateSignal"
    /\ UNCHANGED <<run, firstResult, engine, config, strategyConfig, n, klines,
                   rsi, emaFast, emaSlow, volRatio, i, balance, position,
                   maxBalance, shouldClose, closeReason>>

\* signal := GenerateExitSignal(klines, strategyConfig, positionSide)
CallGenerateExitSignal ==
    /\ engine = "indicator" /\ pc = "start"
    /\ \E positionSide \in {"LONG", "SHORT", "FLAT"} :
          result' = [positionSide |-> positionSide,
                     signal |-> GenerateExitSignal(klines, strategyConfig, positionSide)]
    /\ pc' = "GenerateExitSignal"
    /\ UNCHANGED <<run, firstResult, engine, config, strategyConfig, n, klines,
                   rsi, emaFast, emaSlow, volRatio, i, balance, position,
                   maxBalance, shouldClose, closeReason>>

NextIndicator ==
    \/ CallCalculateRSI
    \/ CallCalculateEMA
    \/ CallVolumeRatio
    \/ CallGenerateSignal
    \/ CallGenerateExitSignal

SpecIndicator == IndicatorInit /\ [][NextIndicator]_vars

---------------------------------------------------------------------------
(* RunOptimize (backtest.go): the parameter sweep *)

\* the parameter ranges of the sweep, outermost loop first
OversoldLongRange == <<R(35), R(40), R(45)>>
EntryLongRange == <<R(45), R(50), R(55)>>
OverboughtShortRange == <<R(55), R(60), R(65)>>
EntryShortRange == <<R(45), R(50), R(55)>>
VolRatioRange == <<One, Frac(3, 2), R(2)>>
EmaFastRange == <<5, 7, 10>>
EmaSlowRange == <<14, 20, 30>>

\* total := the product of the lengths of the seven ranges
SweepTotal ==
    Len(OversoldLongRange) * Len(EntryLongRange) * Len(OverboughtShortRange)
        * Len(EntryShortRange) * Len(VolRatioRange) * Len(EmaFastRange)
        * Len(EmaSlowRange)

\* the j-th element (from 0) of range r when the loops inside it run
\* `inner` combinations per element
Pick(r, j, inner) == r[((j \div inner) % Len(r)) + 1]

\* the loop variables of the j-th iteration (from 0) of the innermost body
Combo(j) ==
    LET sl == Len(EmaSlowRange)
        fa == sl * Len(EmaFastRange)
        vo == fa * Len(VolRatioRange)
        es == vo * Len(EntryShortRange)
        os == es * Len(OverboughtShortRange)
        el == os * Len(EntryLongRange)
    IN  [oversoldLong |-> Pick(OversoldLongRange, j, el),
         entryLong |-> Pick(EntryLongRange, j, os),
         overboughtShort |-> Pick(OverboughtShortRange, j, es),
         entryShort |-> Pick(EntryShortRange, j, vo),
         volRatio |-> Pick(VolRatioRange, j, fa),
         emaFast |-> Pick(EmaFastRange, j, sl),
         emaSlow |-> Pick(EmaSlowRange, j, 1)]

\* mutant of Unreasonable: oversold = entry is let through
UnreasonableStrict(c) ==
    \/ RGt(c.oversoldLong, c.entryLong)
    \/ RLe(c.overboughtShort, c.entryShort)
    \/ c.emaFast >= c.emaSlow

\* oversoldLong >= entryLong || overboughtShort <= entryShort || emaFast >= emaSlow
Unreasonable(c) ==
    \/ RGe(c.oversoldLong, c.entryLong)
    \/ RLe(c.overboughtShort, c.entryShort)
    \/ c.emaFast >= c.emaSlow

\* strategyConfig := StrategyConfig{RSI_PERIOD: 14, ...}
SweepConfig(c) ==
    [RSI_PERIOD |-> 14, RSI_OVERSOLD_LONG |-> c.oversoldLong,
     RSI_ENTRY_LONG |-> c.entryLong, RSI_OVERBOUGHT_SHORT |-> c.overboughtShort,
     RSI_ENTRY_SHORT |-> c.entryShort, EMA_FAST |-> c.emaFast,
     EMA_SLOW |-> c.emaSlow, VOL_RATIO_THRESHOLD |-> c.volRatio]

\* OptimizeResult{Config, TotalPnL, WinRate, Trades, ProfitFactor} of a call
\* of RunBacktest that returned res
OptimizeResultOf(scfg, res) ==
    [Config |-> scfg, TotalPnL |-> res.TotalPnL, WinRate |-> res.WinRate,
     Trades |-> res.TotalTrades, ProfitFactor |-> res.ProfitFactor]

\* results[i], results[j] = results[j], results[i]
Swap(res, a, b) == [res EXCEPT ![a] = res[b], ![b] = res[a]]

\* mutant of SortPass: the comparison is turned around
RECURSIVE SortPassAscending(_, _, _)
SortPassAscending(res, a, b) ==
    IF b > Len(res) THEN res
    ELSE SortPassAscending(IF RLt(res[b].TotalPnL, res[a].TotalPnL)
                           THEN Swap(res, a, b) ELSE res, a, b + 1)

\* the inner loop of sortResults: for j := i + 1; j < len(results); j++
RECURSIVE SortPass(_, _, _)
SortPass(res, a, b) ==
    IF b > Len(res) THEN res
    ELSE SortPass(IF RGt(res[b].TotalPnL, res[a].TotalPnL) THEN Swap(res, a, b)
                  ELSE res, a, b + 1)

\* the outer loop of sortResults, from index a (from 1)
RECURSIVE SortFrom(_, _)
SortFrom(res, a) ==
    IF a > Len(res) THEN res ELSE SortFrom(SortPass(res, a, a + 1), a + 1)

\* sortResults: no pair is swapped when every TotalPnL is the same
SortResults(res) ==
    IF \A r \in 1..Len(res) : res[r].TotalPnL = res[1].TotalPnL THEN res
    ELSE SortFrom(res, 1)

\* the state of RunOptimize(klines, config) before its loops, on a series
\* too short for RunBacktest to pass its guard
OptimizeInit ==
    /\ run = 1 /\ firstResult = Nil
    /\ engine = "optimize"
    /\ config \in BacktestConfigs
    /\ strategyConfig = Nil
    /\ n \in {0, BtMinKlines - 1}
    /\ klines = QuietPrefix(n)
    /\ rsi = Nil /\ emaFast = Nil /\ emaSlow = Nil /\ volRatio = Nil
    /\ i = 0
    /\ balance = Zero /\ maxBalance = Zero
    /\ position = Nil
    /\ shouldClose = FALSE /\ closeReason = NoReason
    /\ result = [results |-> <<>>, count |-> 0]
    /\ pc = "sweep"

\* an iteration of the innermost body that takes the continue
OptSkip ==
    /\ engine = "optimize" /\ pc = "sweep" /\ i < SweepTotal
    /\ Unreasonable(Combo(i))
    /\ i' = i + 1
    /\ UNCHANGED <<run, firstResult, engine, pc, config, strategyConfig, n, klines,
                   rsi, emaFast, emaSlow, volRatio, balance, position, maxBalance,
                   shouldClose, closeReason, result>>

\* an iteration that calls RunBacktest, which returns at its guard n < 50,
\* and appends the OptimizeResult
OptRun ==
    /\ engine = "optimize" /\ pc = "sweep" /\ i < SweepTotal
    /\ ~Unreasonable(Combo(i))
    /\ n < BtMinKlines
    /\ strategyConfig' = SweepConfig(Combo(i))
    /\ result' = [results |-> Append(result.results,
                                     OptimizeResultOf(strategyConfig',
                                         EmptyResult(config.StartBalance))),
                  count |-> result.count + 1]
    /\ i' = i + 1
    /\ UNCHANGED <<run, firstResult, engine, pc, config, n, klines, rsi, emaFast,
                   emaSlow, volRatio, balance, position, maxBalance, shouldClose,
                   closeReason>>

\* after the loops: sortResults(results)
OptFinish ==
    /\ engine = "optimize" /\ pc = "sweep" /\ i = SweepTotal
    /\ result' = [result EXCEPT !.results = SortResults(@)]
    /\ pc' = "done"
    /\ UNCHANGED <<run, firstResult, engine, config, strategyConfig, n, klines,
                   rsi, emaFast, emaSlow, volRatio, i, balance, position,
                   maxBalance, shouldClose, closeReason>>

NextOptimize ==
    \/ OptSkip
    \/ OptRun
    \/ OptFinish

SpecOptimize == OptimizeInit /\ [][NextOptimize]_vars

---------------------------------------------------------------------------
(* RunBacktest (backtest.go) on a series that drifts by a few percent *)

\* number of bars the loop of RunBacktest visits in such a run
DriftBars == 4

\* the closes of those bars
DriftPrices == {388, 392, 395, 396}

\* a bar that opens at `open` and trades at c only, with volume 1
DriftBar(ts, open, c) ==
    [Timestamp |-> ts, Open |-> open, High |-> c, Low |-> c, Close |-> c, Volume |-> 1]

\* klines[0..49]: 48 bars at 200, then a rise to 400 and a bar at 396
RisenPrefix ==
    [j \in 1..BtFirstIndex |->
        IF j <= BtFirstIndex - 2 THEN DriftBar(60 * (j - 1), 200, 200)
        ELSE IF j = BtFirstIndex - 1 THEN DriftBar(60 * (j - 1), 200, 400)
        ELSE DriftBar(60 * (j - 1), 400, 396)]

\* the series: the prefix followed by DriftBars bars with the closes of tail
DriftSeries(tail) ==
    [j \in 1..(BtFirstIndex + DriftBars) |->
        IF j <= BtFirstIndex THEN RisenPrefix[j]
        ELSE DriftBar(60 * (j - 1),
                      IF j = BtFirstIndex + 1 THEN 396 ELSE tail[j - BtFirstIndex - 1],
                      tail[j - BtFirstIndex])]

\* the state of RunBacktest(klines, cfg, strategyCfg) at its first statement,
\* the four indicator series computed over the whole of klines
DriftInit ==
    /\ run = 1 /\ firstResult = Nil
    /\ engine = "backtest"
    /\ config \in BacktestConfigs
    /\ strategyConfig \in {sc \in StrategyConfigs : sc.EMA_SLOW <= BtMinKlines}
    /\ n = BtFirstIndex + DriftBars
    /\ \E tail \in [1..DriftBars -> DriftPrices] : klines = DriftSeries(tail)
    /\ rsi = CalculateRSI(klines, strategyConfig.RSI_PERIOD)
    /\ emaFast = CalculateEMA(klines, strategyConfig.EMA_FAST)
    /\ emaSlow = CalculateEMA(klines, strategyConfig.EMA_SLOW)
    /\ volRatio = VolumeRatio(klines, strategyConfig.RSI_PERIOD)
    /\ i = BtFirstIndex
    /\ balance = config.StartBalance
    /\ position = Nil
    /\ maxBalance = config.StartBalance
    /\ shouldClose = FALSE /\ closeReason = NoReason
    /\ result = EmptyResult(config.StartBalance)
    /\ pc = "start"

NextDrift ==
    \/ BtStart
    \/ BtLoop
    \/ BtExit
    \/ BtEntry
    \/ BtBook
    \/ BtFinish

SpecDrift == DriftInit /\ [][NextDrift]_vars

---------------------------------------------------------------------------
(* ResampleTo5m (backtest.go) *)

\* longest series of one-minute bars handed to ResampleTo5m
MaxBars1m == 6

\* the shapes [Open, High, Low, Close, Volume] a one-minute bar may have
Shapes1m == {<<4, 8, 2, 4, 1>>, <<2, 4, 1, 2, 2>>, <<8, 8, 4, 8, 1>>}

Series1m ==
    UNION {[1..len -> Shapes1m] : len \in 0..MaxBars1m}

\* the one-minute bars of a series of shapes, 60 s apart
Bars1m(shapes) ==
    [j \in 1..Len(shapes) |->
        [Timestamp |-> 60 * (j - 1), Open |-> shapes[j][1], High |-> shapes[j][2],
         Low |-> shapes[j][3], Close |-> shapes[j][4], Volume |-> shapes[j][5]]]

\* for _, k := range bucket: k5 takes a higher High, a lower Low, and the
\* volume
RECURSIVE FoldBucket(_, _, _)
FoldBucket(bucket, idx, k5) ==
    IF idx > Len(bucket) THEN k5
    ELSE LET k == bucket[idx]
         IN  FoldBucket(bucket, idx + 1,
                [k5 EXCEPT !.High = IF k.High > @ THEN k.High ELSE @,
                           !.Low = IF k.Low < @ THEN k.Low ELSE @,
                           !.Volume = @ + k.Volume])

\* k5 := Kline{Timestamp, Open, Close}: High, Low and Volume are left at the
\* zero value; then the loop over the bucket
BucketBar(bucket) ==
    FoldBucket(bucket, 1,
        [Timestamp |-> bucket[1].Timestamp, Open |-> bucket[1].Open, High |-> 0,
         Low |-> 0, Close |-> bucket[Len(bucket)].Close, Volume |-> 0])

\* for i := 0; i < len(klines1m); i += 5, from i = at
RECURSIVE ResampleFrom(_, _, _)
ResampleFrom(klines1m, at, klines5m) ==
    IF at >= Len(klines1m) THEN klines5m
    ELSE LET end == IF at + 5 > Len(klines1m) THEN Len(klines1m) ELSE at + 5
             bucket == SubSeq(klines1m, at + 1, end)
         IN  ResampleFrom(klines1m, at + 5,
                IF Len(bucket) = 0 THEN klines5m
                ELSE Append(klines5m, BucketBar(bucket)))

ResampleTo5m(klines1m) ==
    IF Len(klines1m) = 0 THEN Nil ELSE ResampleFrom(klines1m, 0, <<>>)

\* a series of one-minute bars before ResampleTo5m is called on it
ResampleInit ==
    /\ run = 1 /\ firstResult = Nil
    /\ engine = "resample"
    /\ config = Nil /\ strategyConfig = Nil
    /\ \E shapes \in Series1m : klines = Bars1m(shapes)
    /\ n = Len(klines)
    /\ rsi = Nil /\ emaFast = Nil /\ emaSlow = Nil /\ volRatio = Nil
    /\ i = 0
    /\ balance = Zero /\ maxBalance = Zero
    /\ position = Nil
    /\ shouldClose = FALSE /\ closeReason = NoReason
    /\ result = Nil
    /\ pc = "call"

\* klines5m := ResampleTo5m(klines1m)
CallResampleTo5m ==
    /\ engine = "resample" /\ pc = "call"
    /\ result' = ResampleTo5m(klines)
    /\ pc' = "ResampleTo5m"
    /\ UNCHANGED <<run, firstResult, engine, config, strategyConfig, n, klines, rsi,
                   emaFast, emaSlow, volRatio, i, balance, position, maxBalance,
                   shouldClose, closeReason>>

NextResample == CallResampleTo5m

SpecResample == ResampleInit /\ [][NextResample]_vars

---------------------------------------------------------------------------
(* Strategy: the live polling loop and its order execution *)

\* the values of type Signal
Signals ==
    {"SignalNone", "SignalLong", "SignalShort", "SignalCloseLong", "SignalCloseShort"}

\* the series FutureKline may return: MaxLen bars of volume 1 that close at
\* 2 but for the last two
FetchedSeries ==
    {[j \in 1..MaxLen |->
         SeriesBar(j, IF j <= MaxLen - 2 THEN 2 ELSE tail[j - (MaxLen - 2)], 1)] :
        tail \in [1..2 -> {1, 2, 4}]}

\* how far executeSignal gets past its guard: the call that fails, or "ok"
Outcomes == {"ticker", "account", "asset", "order", "ok"}

\* mutant of DryGuard: both conditions are required
DryGuardBoth(st, cfg) == ~st.client /\ cfg.DryRun

\* if s.client == nil || s.config.DryRun { return nil }
DryGuard(st, cfg) == ~st.client \/ cfg.DryRun

\* the client functions executeSignal(signal) calls when the calls succeed
\* up to `outcome`
ExecuteCalls(st, cfg, signal, outcome) ==
    IF DryGuard(st, cfg) THEN {}
    ELSE {"FutureTicker"}
         \cup (IF outcome # "ticker" THEN {"FutureGetAccount"} ELSE {})
         \cup (IF outcome \in {"order", "ok"} /\ signal = "SignalLong"
               THEN {"FutureOpenLongMarket"} ELSE {})
         \cup (IF outcome \in {"order", "ok"} /\ signal = "SignalShort"
               THEN {"FutureOpenShortMarket"} ELSE {})

\* the error executeSignal(signal) returns
ExecuteErr(st, cfg, signal, outcome) ==
    IF DryGuard(st, cfg) THEN "nil"
    ELSE IF outcome \in {"ticker", "account", "asset"} THEN "error"
    ELSE IF outcome = "order" /\ signal \in {"SignalLong", "SignalShort"} THEN "error"
    ELSE "nil"

\* the Strategy after executeSignal(signal)
ExecuteSignal(st, cfg, signal, outcome) ==
    [st EXCEPT !.executed = signal,
               !.calls = @ \cup ExecuteCalls(st, cfg, signal, outcome),
               !.err = ExecuteErr(st, cfg, signal, outcome)]

\* the Strategy NewStrategy(config) returns, with or without a client
StrategyInit ==
    /\ run = 1 /\ firstResult = Nil
    /\ engine = "strategy"
    /\ config \in {[DryRun |-> d, PositionSize |-> Frac(1, 2)] : d \in BOOLEAN}
    /\ strategyConfig \in SignalConfigs
    /\ n = 0 /\ klines = <<>>
    /\ rsi = Nil /\ emaFast = Nil /\ emaSlow = Nil /\ volRatio = Nil
    /\ i = 0
    /\ balance = Zero /\ maxBalance = Zero
    /\ position = Nil
    /\ shouldClose = FALSE /\ closeReason = NoReason
    /\ \E c \in BOOLEAN :
          result = [client |-> c, running |-> FALSE, stopped |-> FALSE,
                    fetched |-> "", signal |-> "", executed |-> "", calls |-> {},
                    err |-> ""]
    /\ pc = "new"

StrategyUnchanged ==
    UNCHANGED <<run, firstResult, engine, config, strategyConfig, rsi, emaFast,
                emaSlow, volRatio, i, balance, position, maxBalance, shouldClose,
                closeReason>>

\* executeSignal(signal) called on its own on a Strategy that is not running
CallExecuteSignal ==
    /\ engine = "strategy" /\ pc = "new"
    /\ \E signal \in Signals, outcome \in Outcomes :
          result' = ExecuteSignal(result, config, signal, outcome)
    /\ pc' = "executeSignal"
    /\ UNCHANGED <<n, klines>>
    /\ StrategyUnchanged

\* Run up to its loop: s.running = true and the first fetchKlines, which
\* fails without a client or when FutureKline fails
StrategyRun ==
    /\ engine = "strategy" /\ pc = "new"
    /\ \/ /\ result.client
          /\ \E kl \in FetchedSeries : klines' = kl /\ n' = Len(kl)
          /\ result' = [result EXCEPT !.running = TRUE, !.fetched = "nil"]
          /\ pc' = "select"
       \/ /\ result' = [result EXCEPT !.running = TRUE, !.fetched = "error"]
          /\ pc' = "returned"
          /\ UNCHANGED <<n, klines>>
    /\ StrategyUnchanged

\* case <-ticker.C where fetchKlines fails: continue
TickFetchFails ==
    /\ engine = "strategy" /\ pc = "select"
    /\ result' = [result EXCEPT !.fetched = "error"]
    /\ UNCHANGED <<pc, n, klines>>
    /\ StrategyUnchanged

\* case <-ticker.C where fetchKlines succeeds: GenerateSignal, and
\* executeSignal when the signal is not SignalNone
TickGenerates ==
    /\ engine = "strategy" /\ pc = "select"
    /\ \E kl \in FetchedSeries :
          LET signal == GenerateSignal(kl, strategyConfig)
              st == [result EXCEPT !.fetched = "nil", !.signal = signal]
          IN  /\ klines' = kl /\ n' = Len(kl)
              /\ IF signal # "SignalNone"
                 THEN \E outcome \in Outcomes :
                         result' = ExecuteSignal(st, config, signal, outcome)
                 ELSE result' = st
    /\ UNCHANGED pc
    /\ StrategyUnchanged

\* Stop, called from another goroutine: s.running = false
StrategyStop ==
    /\ engine = "strategy" /\ pc \in {"new", "select"}
    /\ ~result.stopped
    /\ result' = [result EXCEPT !.running = FALSE, !.stopped = TRUE]
    /\ UNCHANGED <<pc, n, klines>>
    /\ StrategyUnchanged

NextStrategy ==
    \/ CallExecuteSignal
    \/ StrategyRun
    \/ TickFetchFails
    \/ TickGenerates
    \/ StrategyStop

SpecStrategy == StrategyInit /\ [][NextStrategy]_vars

\* main calls Run on the Strategy it made
SpecStrategyLive == SpecStrategy /\ WF_vars(StrategyRun)

---------------------------------------------------------------------------
(* sortResults (backtest.go) called on its own *)

\* longest list handed to sortResults
MaxResults == 4

\* total profits of the results of a list
SortPnLs == {R(-1), Zero, R(2)}

\* the OptimizeResult of a backtest of one trade with net profit p under the
\* parameters of the j-th combination
OneTradeResult(j, p) ==
    [Config |-> SweepConfig(Combo(j)), TotalPnL |-> p,
     WinRate |-> IF RGt(p, Zero) THEN One ELSE Zero,
     Trades |-> 1, ProfitFactor |-> Zero]

SortInputs ==
    UNION {[1..len -> {OneTradeResult(j, p) : j \in {0, 1}, p \in SortPnLs}] :
           len \in 0..MaxResults}

\* a list of results before sortResults is called on it
SortInit ==
    /\ run = 1 /\ firstResult = Nil
    /\ engine = "sort"
    /\ config = Nil /\ strategyConfig = Nil
    /\ n = 0 /\ klines = <<>>
    /\ rsi = Nil /\ emaFast = Nil /\ emaSlow = Nil /\ volRatio = Nil
    /\ i = 0
    /\ balance = Zero /\ maxBalance = Zero
    /\ position = Nil
    /\ shouldClose = FALSE /\ closeReason = NoReason
    /\ \E input \in SortInputs : result = [results |-> input, count |-> Len(input)]
    /\ pc = "unsorted"

\* sortResults(results); firstResult keeps the list as it was passed in
CallSortResults ==
    /\ engine = "sort" /\ pc = "unsorted"
    /\ firstResult' = <<result>>
    /\ result' = [result EXCEPT !.results = SortResults(@)]
    /\ pc' = "sortResults"
    /\ UNCHANGED <<run, engine, config, strategyConfig, n, klines, rsi, emaFast,
                   emaSlow, volRatio, i, balance, position, maxBalance,
                   shouldClose, closeReason>>

NextSort == CallSortResults

SpecSort == SortInit /\ [][NextSort]_vars

---------------------------------------------------------------------------
(* Properties *)

Bounce == engine = "bounce"
Backtest == engine = "backtest"

\* first index of the loop, and whether the run returns before the loop
FirstIndex == IF Bounce THEN config.DropLookback ELSE BtFirstIndex
TooShort == IF Bounce THEN n < config.DropLookback + BounceWarmup
            ELSE n < BtMinKlines

\* the sum of the amounts of a tranche list
RECURSIVE AmountSum(_)
AmountSum(entries) ==
    IF Len(entries) = 0 THEN Zero
    ELSE RAdd(entries[Len(entries)].amount, AmountSum(SubSeq(entries, 1, Len(entries) - 1)))

\* C1: after every mutation of an open position (first tranche, scale-in,
\* partial exit), in both entry points, position.totalAmt equals the sum
\* of the amounts of the tranches in position.entries.
C1_TotalAmtIsSum ==
    position # Nil => position[1].totalAmt = AmountSum(position[1].entries)

\* a position that got a first tranche, a scale-in and a partial exit and
\* still holds two tranches
C1_Witness ==
    /\ Bounce /\ position # Nil
    /\ position[1].batchCount >= 2
    /\ position[1].exitCount >= 1
    /\ Len(position[1].entries) >= 2

\* the entry times of the tranches ever added to the open position: those
\* still live and those closed into trades since the position was opened
TranchesAdded ==
    {position[1].entries[j].entryTime : j \in 1..Len(position[1].entries)} \cup
    {result.Trades[t].EntryTime : t \in
        {u \in 1..Len(result.Trades) :
            result.Trades[u].EntryTime >= position[1].entryTime}}

\* C2: in RunBounceBacktest the number of tranches ever added to one
\* position never exceeds MaxBatches, batchCount stays in 1..MaxBatches and
\* every tranche's batch ordinal is in 1..MaxBatches.
C2_BatchesCapped ==
    (Bounce /\ position # Nil) =>
        /\ Cardinality(TranchesAdded) <= config.MaxBatches
        /\ position[1].batchCount \in 1..config.MaxBatches
        /\ \A j \in 1..Len(position[1].entries) :
              position[1].entries[j].batch \in 1..config.MaxBatches

\* the entry block has run on a bar where every scale-in condition but the
\* cap holds, for a position that already has MaxBatches >= 2 tranches
C2_Witness ==
    /\ Bounce /\ pc = "book" /\ position # Nil
    /\ config.MaxBatches >= 2
    /\ position[1].batchCount = config.MaxBatches
    /\ position[1].lastBatchTime < K.Timestamp
    /\ K.Timestamp - position[1].lastBatchTime >= config.BatchInterval
    /\ RGe(CurrentRSI, config.RSIEntry) /\ Uptrend

\* C3: when a partial take-profit leaves the position's total amount below
\* 0.0001 (also when every tranche was liquidated), the position is nil by
\* the end of the bar's exit evaluation; no bar ends with a non-nil position
\* whose tranche list is empty.
C3_EmptiedPositionIsFlat ==
    (Bounce /\ pc \in {"entry", "loop"} /\ position # Nil) =>
        /\ Len(position[1].entries) > 0
        /\ ~RLt(position[1].totalAmt, EmptyEps)

\* the gross profit of a recorded trade
Gross(t) == IF t.Side = "LONG" THEN RMul(RSub(t.ExitPrice, t.EntryPrice), t.Amount)
            ELSE RMul(RSub(t.EntryPrice, t.ExitPrice), t.Amount)

RECURSIVE GrossSum(_)
GrossSum(trades) ==
    IF trades = <<>> THEN Zero ELSE RAdd(Gross(Head(trades)), GrossSum(Tail(trades)))

\* (entryPrice + exitPrice) * amount * feeRate over the recorded trades
RECURSIVE RoundTripFees(_)
RoundTripFees(trades) ==
    IF trades = <<>> THEN Zero
    ELSE RAdd(RMul(RMul(RAdd(Head(trades).EntryPrice, Head(trades).ExitPrice),
                        Head(trades).Amount), config.FeeRate),
              RoundTripFees(Tail(trades)))

NoLiveTranche == position = Nil \/ Len(position[1].entries) = 0

\* C4: the fee taken from balance is entryPrice*amount*feeRate when a
\* tranche is opened and exitPrice*amount*feeRate when it is closed, so once
\* every tranche is closed the fees taken from balance (the gross profit
\* that did not reach it) total (entryPrice+exitPrice)*amount*feeRate per
\* closed tranche.
C4_FeeTakenPerTranche ==
    NoLiveTranche =>
        RSub(RAdd(config.StartBalance, GrossSum(result.Trades)), balance)
            = RoundTripFees(result.Trades)

\* a full close is about to run / has just run
BounceClosing ==
    Bounce /\ pc = "close" /\ shouldClose /\ Len(position[1].entries) > 0
BtClosing ==
    /\ Backtest /\ pc = "exit" /\ position # Nil
    /\ Len(position[1].entries) > 0 /\ shouldClose'

\* the k-th trade a full close of the open position at the current bar owes
C5_Owed(k) ==
    LET e == position[1].entries[k]
        fee == RMul(RMul(RAdd(e.entryPrice, R(K.Close)), e.amount), config.FeeRate)
        gross == IF position[1].side = "LONG"
                 THEN RMul(RSub(R(K.Close), e.entryPrice), e.amount)
                 ELSE RMul(RSub(e.entryPrice, R(K.Close)), e.amount)
    IN  [Amount |-> e.amount, Fee |-> fee, PnL |-> RSub(gross, fee)]

RECURSIVE C5_OwedPnL(_)
C5_OwedPnL(k) == IF k = 0 THEN Zero ELSE RAdd(C5_Owed(k).PnL, C5_OwedPnL(k - 1))

\* C5: a full close emits exactly one Trade per live tranche, with the
\* tranche's amount, Fee = (entryPrice+exitPrice)*amount*feeRate and
\* PnL = gross - Fee (gross negated for SHORT), adds each PnL to balance
\* and leaves no position.
C5_FullClose ==
    [][(BounceClosing \/ BtClosing) =>
        LET m == Len(position[1].entries)
            old == Len(result.Trades)
        IN  /\ Len(result'.Trades) = old + m
            /\ SubSeq(result'.Trades, 1, old) = result.Trades
            /\ \A k \in 1..m :
                  LET t == result'.Trades[old + k]
                  IN  /\ t.Amount = C5_Owed(k).Amount
                      /\ t.Fee = C5_Owed(k).Fee
                      /\ t.PnL = C5_Owed(k).PnL
                      /\ t.Side = position[1].side
                      /\ t.ExitPrice = R(K.Close)
                      /\ t.EntryPrice = position[1].entries[k].entryPrice
            /\ balance' = RAdd(balance, C5_OwedPnL(m))
            /\ position' = Nil]_vars

\* a long position of two tranches was fully closed on this bar at fee
\* rate 0: two trades, no fee, PnL summing to the gross profit
C5_Witness ==
    /\ Bounce /\ pc = "entry" /\ shouldClose /\ position = Nil
    /\ config.FeeRate = Zero
    /\ Len(result.Trades) >= 2
    /\ LET a == result.Trades[Len(result.Trades) - 1]
           b == result.Trades[Len(result.Trades)]
       IN  /\ a.ExitTime = K.Timestamp /\ b.ExitTime = K.Timestamp
           /\ a.Reason = b.Reason /\ a.Reason[1] \in {"RSI_STOP", "MAX_HOLD"}
           /\ a.EntryTime < b.EntryTime
           /\ a.Fee = Zero /\ b.Fee = Zero
           /\ RAdd(a.PnL, b.PnL) = RAdd(Gross(a), Gross(b))

\* C6: result.MaxDrawdown is always within [0, 1] (and never decreases).
C6_DrawdownInUnitInterval ==
    RLe(Zero, result.MaxDrawdown) /\ RLe(result.MaxDrawdown, One)

\* C7: the balance curve starts with StartBalance and gains one value per
\* processed bar: its length is the number of bars processed plus one, and
\* 1 when the run returns early for insufficient data.
C7_CurveLength ==
    /\ result.BalanceCurve[1] = config.StartBalance
    /\ pc = "start" => Len(result.BalanceCurve) = 1
    /\ pc \in {"loop", "exit", "close", "entry", "book"} =>
          Len(result.BalanceCurve) = (i - FirstIndex) + 1
    /\ pc = "done" =>
          Len(result.BalanceCurve) = IF TooShort THEN 1 ELSE (n - FirstIndex) + 1

\* a finished run that processed bars and closed trades
C7_Witness ==
    /\ pc = "done" /\ ~TooShort /\ n > FirstIndex
    /\ result.TotalTrades > 0
    /\ Len(result.BalanceCurve) = (n - FirstIndex) + 1

\* C8 as stated: ProfitFactor is 0 when there are no losing trades and
\* otherwise (sum of positive PnL) / (sum of magnitudes of non-positive
\* PnL); WinRate is 0 when there are no trades, otherwise
\* WinTrades / TotalTrades.
C8_AsStated ==
    pc = "done" =>
        /\ result.ProfitFactor =
              IF result.LoseTrades = 0 THEN Zero
              ELSE RDiv(TotalWin(result.Trades), TotalLose(result.Trades))
        /\ result.WinRate =
              IF result.TotalTrades = 0 THEN Zero
              ELSE RDiv(R(result.WinTrades), R(result.TotalTrades))

\* C8 amended: ProfitFactor is 0 when the magnitudes of the non-positive
\* trade PnLs sum to 0 (no trade with negative PnL), and otherwise (sum of
\* positive PnL) / (that sum); WinRate as stated.
C8_Aggregates ==
    pc = "done" =>
        /\ result.ProfitFactor =
              IF TotalLose(result.Trades) = Zero THEN Zero
              ELSE RDiv(TotalWin(result.Trades), TotalLose(result.Trades))
        /\ result.WinRate =
              IF result.TotalTrades = 0 THEN Zero
              ELSE RDiv(R(result.WinTrades), R(result.TotalTrades))

\* a finished run with winning and losing trades
C8_Witness ==
    /\ pc = "done" /\ result.WinTrades > 0 /\ result.LoseTrades > 0
    /\ RGt(result.ProfitFactor, Zero)
    /\ RGt(result.WinRate, Zero) /\ RLt(result.WinRate, One)

EntryPredicateAt(j) ==
    IF Bounce
    THEN LET hi == WindowHigh(klines, j, 2, config.DropLookback, klines[j].High)
             lo == WindowLow(klines, j, 2, config.DropLookback, klines[j].Low)
         IN  /\ RGe(Frac(hi - lo, hi), config.DropThreshold)
             /\ RLt(rsi[j], config.RSIOversold)
             /\ RGe(rsi[j + 1], config.RSIEntry)
             /\ RGt(emaFast[j + 1], emaSlow[j + 1])
    ELSE /\ RGe(volRatio[j + 1], strategyConfig.VOL_RATIO_THRESHOLD)
         /\ \/ /\ RGt(emaFast[j + 1], emaSlow[j + 1])
               /\ RLt(rsi[j], strategyConfig.RSI_OVERSOLD_LONG)
               /\ RGe(rsi[j + 1], strategyConfig.RSI_ENTRY_LONG)
            \/ /\ RLt(emaFast[j + 1], emaSlow[j + 1])
               /\ RGt(rsi[j], strategyConfig.RSI_OVERBOUGHT_SHORT)
               /\ RLe(rsi[j + 1], strategyConfig.RSI_ENTRY_SHORT)

NoEntryEver == \A j \in FirstIndex..(Len(klines) - 1) : ~EntryPredicateAt(j)

\* C10: on a bar sequence whose processed bars never satisfy the entry
\* predicate the run records no trade, never opens a position, keeps every
\* balance-curve value at StartBalance and MaxDrawdown at 0.
C10_NoEntryNoTrade ==
    NoEntryEver =>
        /\ result.Trades = <<>> /\ result.TotalTrades = 0
        /\ position = Nil
        /\ balance = config.StartBalance
        /\ \A c \in 1..Len(result.BalanceCurve) :
              result.BalanceCurve[c] = config.StartBalance
        /\ result.MaxDrawdown = Zero

\* a finished run over prices that moved without the entry predicate ever
\* holding
C10_Witness ==
    /\ pc = "done" /\ ~TooShort /\ NoEntryEver
    /\ \E j \in 1..Len(klines) : klines[j].Close > klines[1].Close
    /\ \E j \in 1..Len(klines) : klines[j].Close < klines[1].Close

\* the warm-up a configuration requires: the largest indicator period plus
\* the lookback window
Max2(a, b) == IF a > b THEN a ELSE b
WarmupNeeded ==
    IF Bounce
    THEN config.DropLookback + Max2(BounceRSIPeriod, Max2(BounceEMAFast, BounceEMASlow))
    ELSE Max2(strategyConfig.RSI_PERIOD,
              Max2(strategyConfig.EMA_FAST, strategyConfig.EMA_SLOW))

\* C11: on a bar sequence shorter than the warm-up the configuration
\* requires, RunBacktest and RunBounceBacktest return with an empty Result
\* (no trades, balance curve = [StartBalance]) and do not fail or index an
\* absent indicator array.
C11_ShortSeriesReturnsEmpty ==
    ((Bounce \/ Backtest) /\ n < WarmupNeeded) =>
        /\ pc \in {"start", "loop", "done"}
        /\ result = EmptyResult(config.StartBalance)

\* C12: no consumer reads an indicator value before the indicator's
\* warm-up boundary; for GenerateExitSignal, every index of rsi it reads
\* (rsi[n-1], rsi[n-2]) is at or after the first computed index, period.
C12_ReadsAfterWarmup ==
    (engine = "indicator" /\ pc = "GenerateExitSignal") =>
        \A j \in ExitSignalReads(klines, strategyConfig) :
            j >= strategyConfig.RSI_PERIOD

\* C13: RunBacktest holds at most one position and it never flips side:
\* while it stays open its side is unchanged and its tranches only grow; a
\* tranche is added only on a bar whose trend is the position's side (up
\* for LONG, down for SHORT); every Trade closed from it carries its side.
C13_OneSidedPosition ==
    [][Backtest =>
        /\ Len(position') <= 1
        /\ (position' # Nil) => position'[1].side \in {"LONG", "SHORT"}
        /\ (position # Nil /\ position' # Nil) =>
              /\ position'[1].side = position[1].side
              /\ Len(position'[1].entries) >= Len(position[1].entries)
              /\ SubSeq(position'[1].entries, 1, Len(position[1].entries))
                    = position[1].entries
        /\ (position' # Nil /\ position' # position) =>
              IF position'[1].side = "LONG" THEN Uptrend ELSE Downtrend
        /\ \A t \in (Len(result.Trades) + 1)..Len(result'.Trades) :
              position # Nil /\ result'.Trades[t].Side = position[1].side]_vars

\* a position is open after a position of the other side was closed into a
\* trade earlier in the run
C13_Witness ==
    /\ Backtest /\ position # Nil
    /\ Len(position[1].entries) >= 1
    /\ \E t \in 1..Len(result.Trades) : result.Trades[t].Side # position[1].side

\* the sum of entryPrice * amount over a tranche list
RECURSIVE NotionalSum(_)
NotionalSum(entries) ==
    IF entries = <<>> THEN Zero
    ELSE RAdd(RMul(Head(entries).entryPrice, Head(entries).amount),
              NotionalSum(Tail(entries)))

\* C14: after every mutation of an open position (first tranche, scale-in,
\* partial exit), position.avgPrice equals the amount-weighted mean of the
\* entry prices of the tranches live in the position.
C14_AvgPriceIsWeightedMean ==
    ((Bounce \/ Backtest) /\ position # Nil /\ Len(position[1].entries) > 0) =>
        position[1].avgPrice =
            RDiv(NotionalSum(position[1].entries), AmountSum(position[1].entries))

\* the number of trades of a list whose PnL is positive
RECURSIVE WinCount(_)
WinCount(trades) ==
    IF trades = <<>> THEN 0
    ELSE (IF RGt(Head(trades).PnL, Zero) THEN 1 ELSE 0) + WinCount(Tail(trades))

\* C15: at every point of a run WinTrades is the number of recorded trades
\* with PnL > 0, LoseTrades the number with PnL <= 0 (a zero-PnL trade is a
\* loss), and WinTrades + LoseTrades = TotalTrades = length of Trades.
C15_Counters ==
    (Bounce \/ Backtest) =>
        /\ result.WinTrades = WinCount(result.Trades)
        /\ result.LoseTrades = Len(result.Trades) - WinCount(result.Trades)
        /\ result.TotalTrades = Len(result.Trades)
        /\ result.WinTrades + result.LoseTrades = result.TotalTrades

\* a run that recorded a zero-PnL trade and a winning trade
C15_Witness ==
    /\ (Bounce \/ Backtest)
    /\ \E a, b \in 1..Len(result.Trades) :
           /\ result.Trades[a].PnL = Zero
           /\ RGt(result.Trades[b].PnL, Zero)
    /\ result.LoseTrades >= 1
    /\ result.WinTrades >= 1

IndicatorCall(name) == engine = "indicator" /\ pc = name

\* no close-to-close delta of the window ending at index idx is negative
NoNegativeDelta(kl, period, idx) ==
    \A j \in (idx - period)..(idx - 1) : kl[j + 2].Close >= kl[j + 1].Close

\* C16: CalculateRSI returns exactly 100 at every index >= period whose
\* trailing window of period deltas holds no negative delta; the zero-loss
\* case is a value, not an error.
C16_ZeroLossIs100 ==
    (IndicatorCall("CalculateRSI") /\ rsi # Nil) =>
        \A idx \in strategyConfig.RSI_PERIOD..(Len(klines) - 1) :
            NoNegativeDelta(klines, strategyConfig.RSI_PERIOD, idx) =>
                rsi[idx + 1] = R(100)

\* CalculateRSI was called on a series with a strictly rising window and a
\* flat window past the warm-up
C16_Witness ==
    /\ IndicatorCall("CalculateRSI") /\ rsi # Nil
    /\ \E a, b \in strategyConfig.RSI_PERIOD..(Len(klines) - 1) :
           /\ \A j \in (a - strategyConfig.RSI_PERIOD)..(a - 1) :
                  klines[j + 2].Close > klines[j + 1].Close
           /\ \A j \in (b - strategyConfig.RSI_PERIOD)..(b - 1) :
                  klines[j + 2].Close = klines[j + 1].Close
           /\ rsi[a + 1] = R(100) /\ rsi[b + 1] = R(100)

\* C17: CalculateRSI returns nil when the series has fewer than period + 1
\* bars; otherwise an array of the input length, 0 at indices < period and
\* within [0, 100] at indices >= period.
C17_RSIShape ==
    IndicatorCall("CalculateRSI") =>
        LET period == strategyConfig.RSI_PERIOD
        IN  IF Len(klines) < period + 1 THEN rsi = Nil
            ELSE /\ rsi # Nil
                 /\ Len(rsi) = Len(klines)
                 /\ \A idx \in 0..(Len(klines) - 1) :
                        IF idx < period THEN rsi[idx + 1] = Zero
                        ELSE RGe(rsi[idx + 1], Zero) /\ RLe(rsi[idx + 1], R(100))

\* CalculateRSI was called on a series of more than period + 1 bars and gave
\* an array with a zero before the warm-up and a value strictly inside (0, 100)
C17_Witness ==
    /\ IndicatorCall("CalculateRSI") /\ rsi # Nil
    /\ Len(klines) > strategyConfig.RSI_PERIOD + 1
    /\ \E idx \in strategyConfig.RSI_PERIOD..(Len(klines) - 1) :
           RGt(rsi[idx + 1], Zero) /\ RLt(rsi[idx + 1], R(100))
    /\ rsi[strategyConfig.RSI_PERIOD] = Zero

\* what the claim says of the array CalculateEMA(kl, period) returns
EMAAsClaimed(arr, kl, period) ==
    IF Len(kl) < period THEN arr = Nil
    ELSE /\ arr # Nil
         /\ Len(arr) = Len(kl)
         /\ \A idx \in 0..(Len(kl) - 1) :
                IF idx < period - 1 THEN arr[idx + 1] = Zero
                ELSE IF idx = period - 1
                THEN arr[idx + 1] = Frac(SumClose(kl, 0, period), period)
                ELSE arr[idx + 1] =
                        RAdd(RMul(RSub(R(kl[idx + 1].Close), arr[idx]),
                                  Frac(2, period + 1)),
                             arr[idx])

\* C18: CalculateEMA returns nil for fewer than period bars; otherwise
\* ema[period-1] is the simple mean of the first period closes, each later
\* ema[i] = (close[i] - ema[i-1]) * 2/(period+1) + ema[i-1], and the entries
\* before index period-1 are 0.
C18_EMAShape ==
    IndicatorCall("CalculateEMA") =>
        /\ EMAAsClaimed(emaFast, klines, strategyConfig.EMA_FAST)
        /\ EMAAsClaimed(emaSlow, klines, strategyConfig.EMA_SLOW)

\* CalculateEMA was called on a series long enough for the slow average to
\* have a zero prefix, a seed and a later value that moved off the seed
C18_Witness ==
    /\ IndicatorCall("CalculateEMA") /\ emaSlow # Nil
    /\ Len(klines) > strategyConfig.EMA_SLOW
    /\ emaSlow[1] = Zero
    /\ emaSlow[strategyConfig.EMA_SLOW] # Zero
    /\ emaSlow[strategyConfig.EMA_SLOW + 1] # emaSlow[strategyConfig.EMA_SLOW]

\* C19: VolumeRatio returns nil for fewer than period bars; otherwise, at
\* every index i, volume[i] divided by the mean volume of the period bars
\* ending at i, and 0 where that mean is zero or not yet defined
\* (i < period - 1).
C19_VolumeRatioShape ==
    IndicatorCall("VolumeRatio") =>
        LET period == strategyConfig.RSI_PERIOD
        IN  IF Len(klines) < period THEN volRatio = Nil
            ELSE /\ volRatio # Nil
                 /\ Len(volRatio) = Len(klines)
                 /\ \A idx \in 0..(Len(klines) - 1) :
                        LET sum == IF idx < period - 1 THEN 0
                                   ELSE SumVolume(klines, idx - period + 1, idx)
                        IN  IF sum = 0 THEN volRatio[idx + 1] = Zero
                            ELSE volRatio[idx + 1] =
                                    Frac(klines[idx + 1].Volume * period, sum)

\* VolumeRatio was called on a series with a bar before the first full
\* window, a full window of zero volume and a bar trading twice its mean
C19_Witness ==
    /\ IndicatorCall("VolumeRatio") /\ volRatio # Nil
    /\ strategyConfig.RSI_PERIOD = 2
    /\ \E a, b \in 1..(Len(klines) - 1) :
           /\ SumVolume(klines, a - 1, a) = 0 /\ volRatio[a + 1] = Zero
           /\ volRatio[b + 1] = R(2)
    /\ volRatio[1] = Zero

\* every value the entry conditions name is computed on the series: the
\* previous and current RSI are past the warm-up, both averages and the
\* volume ratio exist at the last bar
EntryValuesDefined(kl, cfg) ==
    /\ Len(kl) >= cfg.RSI_PERIOD + 2
    /\ Len(kl) >= cfg.EMA_FAST
    /\ Len(kl) >= cfg.EMA_SLOW

\* previous RSI < oversold, current RSI >= long entry, fast EMA above slow
\* EMA, volume ratio >= the configured multiple, all at the last bar
LongConditions(kl, cfg) ==
    /\ EntryValuesDefined(kl, cfg)
    /\ RLt(RSIAt(kl, cfg.RSI_PERIOD, Len(kl) - 2), cfg.RSI_OVERSOLD_LONG)
    /\ RGe(RSIAt(kl, cfg.RSI_PERIOD, Len(kl) - 1), cfg.RSI_ENTRY_LONG)
    /\ RGt(CalculateEMA(kl, cfg.EMA_FAST)[Len(kl)],
           CalculateEMA(kl, cfg.EMA_SLOW)[Len(kl)])
    /\ RGe(VolumeRatio(kl, cfg.RSI_PERIOD)[Len(kl)], cfg.VOL_RATIO_THRESHOLD)

\* the mirror: previous RSI > overbought, current RSI <= short entry, fast
\* EMA below slow EMA, volume ratio >= the configured multiple
ShortConditions(kl, cfg) ==
    /\ EntryValuesDefined(kl, cfg)
    /\ RGt(RSIAt(kl, cfg.RSI_PERIOD, Len(kl) - 2), cfg.RSI_OVERBOUGHT_SHORT)
    /\ RLe(RSIAt(kl, cfg.RSI_PERIOD, Len(kl) - 1), cfg.RSI_ENTRY_SHORT)
    /\ RLt(CalculateEMA(kl, cfg.EMA_FAST)[Len(kl)],
           CalculateEMA(kl, cfg.EMA_SLOW)[Len(kl)])
    /\ RGe(VolumeRatio(kl, cfg.RSI_PERIOD)[Len(kl)], cfg.VOL_RATIO_THRESHOLD)

\* C20 as stated: GenerateSignal returns SignalLong exactly when the long
\* conditions hold, SignalShort exactly when the mirrored conditions hold
\* and the long signal does not fire, and SignalNone otherwise.
C20_AsStated ==
    IndicatorCall("GenerateSignal") =>
        result.signal =
            IF LongConditions(klines, strategyConfig) THEN "SignalLong"
            ELSE IF ShortConditions(klines, strategyConfig) THEN "SignalShort"
            ELSE "SignalNone"

\* C20: on a series of at least max(RSI_PERIOD + 2, EMA_SLOW + 1) bars
\* GenerateSignal returns SignalLong exactly when the long conditions hold,
\* SignalShort exactly when the mirrored conditions hold and the long signal
\* does not fire, and SignalNone otherwise; on a shorter series it returns
\* SignalNone; it never returns a close signal.
C20_Signal ==
    IndicatorCall("GenerateSignal") =>
        LET enough == /\ Len(klines) >= strategyConfig.RSI_PERIOD + 2
                      /\ Len(klines) >= strategyConfig.EMA_SLOW + 1
        IN  /\ result.signal \in {"SignalNone", "SignalLong", "SignalShort"}
            /\ result.signal =
                   IF enough /\ LongConditions(klines, strategyConfig)
                   THEN "SignalLong"
                   ELSE IF enough /\ ShortConditions(klines, strategyConfig)
                   THEN "SignalShort"
                   ELSE "SignalNone"

\* GenerateSignal returned SignalLong on a series where the long conditions
\* hold
C20_Witness ==
    /\ IndicatorCall("GenerateSignal")
    /\ result.signal = "SignalLong"
    /\ LongConditions(klines, strategyConfig)
    /\ ~ShortConditions(klines, strategyConfig)

\* C21: a second call of RunBacktest or RunBounceBacktest on the same bars,
\* with a config that differs in Leverage only, returns the Result of the
\* first call.
C21_LeverageIgnored ==
    (run = 2 /\ pc = "done" /\ config.Leverage \in OtherLeverages) =>
        result = firstResult[1]

\* both calls have returned, with another leverage in the second, and the
\* Result holds trades
C21_Witness ==
    /\ run = 2 /\ pc = "done" /\ config.Leverage \in OtherLeverages
    /\ result.TotalTrades >= 2
    /\ result = firstResult[1]

\* k.Timestamp - position.entryTime at the current bar
HoldTime == K.Timestamp - position[1].entryTime

\* C22: in RunBounceBacktest a bar on which the position has been held for
\* MaxHoldTime or longer closes all remaining tranches, so at the end of
\* every bar an open position has been held for less than MaxHoldTime.
C22_MaxHoldCloses ==
    (Bounce /\ pc = "book" /\ position # Nil) => HoldTime < config.MaxHoldTime

\* C23: in RunBounceBacktest the full-close conditions are taken in the
\* order RSI stop, maximum holding time, and the first true one wins: a full
\* close on a bar where currentRSI < RSIExit and the holding time has
\* reached MaxHoldTime records its trades with the RSI-stop reason.
C23_RsiStopWins ==
    [][(/\ Bounce /\ pc = "close" /\ position # Nil
        /\ RLt(CurrentRSI, config.RSIExit)
        /\ HoldTime >= config.MaxHoldTime
        /\ Len(position[1].entries) > 0
        /\ RGe(position[1].totalAmt, EmptyEps))
       => \A t \in (Len(result.Trades) + 1)..Len(result'.Trades) :
              result'.Trades[t].Reason = Reason("RSI_STOP")]_vars

\* the partial take-profit condition at the current bar: time since entry
\* >= StartExitTime and bounce >= ProfitThreshold
TakeProfitHolds ==
    /\ HoldTime >= config.StartExitTime
    /\ RGe(RDiv(RSub(R(K.Close), position[1].lowPrice),
                RSub(position[1].highPrice, position[1].lowPrice)),
           config.ProfitThreshold)

\* the number of exit slots due at the current bar
SlotsDue == ((HoldTime - config.StartExitTime) \div config.ExitInterval) + 1

\* C24: in RunBounceBacktest, on a bar where the partial take-profit
\* condition holds, one liquidation is executed per newly due exit slot, so
\* that after the exit evaluation position.exitCount equals the number of
\* slots due; no liquidation is executed when no new slot is due.
C24_ExitSlots ==
    [][(Bounce /\ pc = "exit" /\ position # Nil) =>
          IF TakeProfitHolds /\ SlotsDue > position[1].exitCount
          THEN position'[1].exitCount = SlotsDue
          ELSE /\ position' = position
               /\ result' = result]_vars

\* the sum of the amounts of a trade list
RECURSIVE GrossAmount(_)
GrossAmount(trades) ==
    IF trades = <<>> THEN Zero ELSE RAdd(Head(trades).Amount, GrossAmount(Tail(trades)))

\* a partial take-profit is executed by the step from pc = "exit"
PartialFires ==
    /\ Bounce /\ pc = "exit" /\ position # Nil
    /\ TakeProfitHolds /\ SlotsDue > position[1].exitCount

\* the trades the step appended to result.Trades
NewTrades == SubSeq(result'.Trades, Len(result.Trades) + 1, Len(result'.Trades))

\* trade closes `amount` of tranche `entry`
ClosesFrom(trade, entry, amount) ==
    /\ trade.EntryTime = entry.entryTime
    /\ trade.EntryPrice = entry.entryPrice
    /\ trade.Amount = amount

\* the first m tranches are closed whole, then `cut` is taken off tranche
\* m + 1 (nothing when cut = 0), and the rest is kept as it was
FifoOutcome(old, new, trades, m, cut) ==
    /\ Len(trades) = m + (IF cut = Zero THEN 0 ELSE 1)
    /\ \A j \in 1..m : ClosesFrom(trades[j], old[j], old[j].amount)
    /\ IF cut = Zero
       THEN new = SubSeq(old, m + 1, Len(old))
       ELSE /\ m < Len(old)
            /\ RGt(cut, Zero) /\ RLt(cut, old[m + 1].amount)
            /\ ClosesFrom(trades[m + 1], old[m + 1], cut)
            /\ new = <<[old[m + 1] EXCEPT !.amount = RSub(@, cut)]>>
                        \o SubSeq(old, m + 2, Len(old))

\* C25: a partial take-profit of RunBounceBacktest with 0 < ExitPercent <= 1
\* liquidates exactly ExitPercent * totalAmt, oldest tranche first: the
\* tranches before the boundary are closed whole, at most one is split, the
\* later ones are untouched, and what remains keeps its order, entry time,
\* entry price and batch ordinal.
C25_PartialIsFifo ==
    [][PartialFires =>
          LET old == position[1].entries
              closeAmt == RMul(position[1].totalAmt, config.ExitPercent)
          IN  /\ GrossAmount(NewTrades) = closeAmt
              /\ \E m \in 0..Len(old) :
                    FifoOutcome(old, position'[1].entries, NewTrades, m,
                                RSub(closeAmt, AmountSum(SubSeq(old, 1, m))))]_vars

\* a position of two tranches after a partial take-profit that closed the
\* older tranche whole and split the younger one
C25_Witness ==
    /\ Bounce /\ pc = "close" /\ position # Nil
    /\ Len(position[1].entries) = 1
    /\ position[1].entries[1].batch = 2
    /\ Len(result.Trades) >= 2
    /\ result.Trades[Len(result.Trades)].ExitTime = K.Timestamp
    /\ result.Trades[Len(result.Trades)].EntryTime = position[1].entries[1].entryTime
    /\ result.Trades[Len(result.Trades) - 1].ExitTime = K.Timestamp
    /\ result.Trades[Len(result.Trades) - 1].EntryTime < position[1].entries[1].entryTime

\* the step from pc = "entry" adds a scale-in tranche to the open position
ScaleInFires ==
    /\ Bounce /\ pc = "entry" /\ position # Nil /\ position' # Nil
    /\ position'[1].batchCount # position[1].batchCount

\* C26 as stated: a scale-in tranche is added only when the time since the
\* position's last tranche addition exceeds BatchInterval; each addition
\* sets lastBatchTime to the bar's timestamp and increments batchCount by one.
C26_AsStated ==
    [][ScaleInFires =>
          /\ K.Timestamp - position[1].lastBatchTime > config.BatchInterval
          /\ position'[1].lastBatchTime = K.Timestamp
          /\ position'[1].batchCount = position[1].batchCount + 1]_vars

\* C26: in RunBounceBacktest a scale-in tranche is added only when the time
\* since the position's last tranche addition is at least BatchInterval, so
\* two consecutive additions to a position are at least BatchInterval
\* seconds apart; each addition sets lastBatchTime to the bar's timestamp,
\* stamps the new tranche with it, and increments batchCount by exactly one.
C26_ScaleInSpacing ==
    [][ScaleInFires =>
          /\ K.Timestamp - position[1].lastBatchTime >= config.BatchInterval
          /\ position'[1].lastBatchTime = K.Timestamp
          /\ position'[1].batchCount = position[1].batchCount + 1
          /\ Len(position'[1].entries) = Len(position[1].entries) + 1
          /\ LET added == position'[1].entries[Len(position'[1].entries)]
             IN  /\ added.entryTime = K.Timestamp
                 /\ added.batch = position'[1].batchCount]_vars

\* a second tranche added two bars after the first, under BatchInterval 120
C26_Witness ==
    /\ Bounce /\ pc = "book" /\ position # Nil
    /\ config.BatchInterval = 120
    /\ position[1].batchCount = 2
    /\ position[1].lastBatchTime = K.Timestamp
    /\ position[1].lastBatchTime - position[1].entryTime = 120

\* the sum of EntryPrice * Amount over a trade list
RECURSIVE TradedNotional(_)
TradedNotional(trades) ==
    IF trades = <<>> THEN Zero
    ELSE RAdd(RMul(Head(trades).EntryPrice, Head(trades).Amount),
              TradedNotional(Tail(trades)))

\* the opening fees of every tranche bought so far, closed or live
OpeningFees ==
    RMul(RAdd(TradedNotional(result.Trades),
              IF position = Nil THEN Zero ELSE NotionalSum(position[1].entries)),
         config.FeeRate)

\* C27: within a bar RunBounceBacktest evaluates the exit, then the entry or
\* scale-in, then the bookkeeping: a first tranche is created only while
\* Flat and is sized from the balance after that bar's closes; a scale-in
\* goes only to a position that the bar's exit evaluation left open, never
\* on the bar the position was opened; the value appended to the curve is
\* the balance after that bar's closes and opening fees.
C27_BarOrder ==
    [][Bounce =>
         /\ (pc = "entry" /\ position' # position /\ position = Nil) =>
                /\ position'[1].entries =
                       <<[entryTime |-> K.Timestamp, entryPrice |-> R(K.Close),
                          amount |-> RDiv(RMul(balance, config.FirstBatchSize),
                                          R(K.Close)),
                          batch |-> 1]>>
                /\ position'[1].entryTime = K.Timestamp
         /\ (position' # position /\ position # Nil /\ position' # Nil
                /\ Len(position'[1].entries) > Len(position[1].entries)) =>
                /\ pc = "entry"
                /\ ~shouldClose
                /\ position[1].entryTime < K.Timestamp
         /\ (position = Nil /\ position' # Nil) => pc = "entry"
         /\ (pc = "book") =>
                /\ result'.BalanceCurve = Append(result.BalanceCurve, balance)
                /\ balance = RSub(RAdd(config.StartBalance, result.TotalPnL),
                                  OpeningFees)]_vars

\* the fast EMA crosses against the side of the open position at bar i
CrossAgainst ==
    \/ /\ position[1].side = "LONG"
       /\ RGe(emaFast[i], emaSlow[i]) /\ RLt(emaFast[i + 1], emaSlow[i + 1])
    \/ /\ position[1].side = "SHORT"
       /\ RLe(emaFast[i], emaSlow[i]) /\ RGt(emaFast[i + 1], emaSlow[i + 1])

\* the unrealized return of the open position against avgPrice is <= -3%
StoppedOut ==
    LET move == RDiv(RSub(R(K.Close), position[1].avgPrice), position[1].avgPrice)
    IN  RLe(IF position[1].side = "SHORT" THEN RNeg(move) ELSE move, Frac(-3, 100))

RsiCrossedDown(kl, cfg) ==
    /\ Len(kl) >= cfg.RSI_PERIOD + 2
    /\ RGe(RSIAt(kl, cfg.RSI_PERIOD, Len(kl) - 2), R(50))
    /\ RLt(RSIAt(kl, cfg.RSI_PERIOD, Len(kl) - 1), R(50))

RsiCrossedUp(kl, cfg) ==
    /\ Len(kl) >= cfg.RSI_PERIOD + 2
    /\ RLe(RSIAt(kl, cfg.RSI_PERIOD, Len(kl) - 2), R(50))
    /\ RGt(RSIAt(kl, cfg.RSI_PERIOD, Len(kl) - 1), R(50))

\* C29: GenerateExitSignal returns SignalCloseLong only when the side is
\* LONG and RSI crossed down through 50 (previous >= 50, current < 50),
\* SignalCloseShort only when the side is SHORT and RSI crossed up through
\* 50 (previous <= 50, current > 50), and SignalNone in every other case,
\* too few bars and any other side string included.
C29_ExitSignal ==
    IndicatorCall("GenerateExitSignal") =>
        result.signal =
            IF result.positionSide = "LONG" /\ RsiCrossedDown(klines, strategyConfig)
            THEN "SignalCloseLong"
            ELSE IF result.positionSide = "SHORT"
                    /\ RsiCrossedUp(klines, strategyConfig)
            THEN "SignalCloseShort"
            ELSE "SignalNone"

\* the parameters of iteration j pass the three tests
Reasonable(j) ==
    LET c == Combo(j)
    IN  /\ RLt(c.oversoldLong, c.entryLong)
        /\ RGt(c.overboughtShort, c.entryShort)
        /\ c.emaFast < c.emaSlow

\* C30: RunOptimize invokes RunBacktest only for parameter combinations with
\* oversold-long < entry-long, overbought-short > entry-short and EMA fast <
\* EMA slow, exactly once per such combination, and records nothing for any
\* other combination.
C30_SweepRunsReasonableOnly ==
    [][(engine = "optimize" /\ pc = "sweep") =>
          IF i < SweepTotal
          THEN /\ i' = i + 1
               /\ IF Reasonable(i)
                  THEN /\ Len(result'.results) = Len(result.results) + 1
                       /\ SubSeq(result'.results, 1, Len(result.results)) = result.results
                       /\ result'.results[Len(result'.results)].Config =
                              SweepConfig(Combo(i))
                       /\ result'.count = result.count + 1
                  ELSE result' = result
          ELSE /\ {result.results[r].Config : r \in 1..Len(result.results)} =
                      {SweepConfig(Combo(j)) : j \in {k \in 0..(i - 1) : Reasonable(k)}}
               /\ Len(result.results) =
                      Cardinality({k \in 0..(i - 1) : Reasonable(k)})
               /\ result.count = Len(result.results)]_vars

\* the sweep is over: some combinations were run and some were skipped
C30_Witness ==
    /\ engine = "optimize" /\ pc = "done" /\ i = SweepTotal
    /\ Len(result.results) > 0
    /\ Len(result.results) < SweepTotal


\* number of places of list l that hold x
CountOf(l, x) == Cardinality({k \in 1..Len(l) : l[k] = x})

IsPermutation(a, b) ==
    /\ Len(a) = Len(b)
    /\ \A k \in 1..Len(a) : CountOf(a, a[k]) = CountOf(b, a[k])

PnLNonIncreasing(l) ==
    \A k \in 1..(Len(l) - 1) : RGe(l[k].TotalPnL, l[k + 1].TotalPnL)

\* C31: after sortResults the list is a permutation of the list passed in
\* and its TotalPnL values are non-increasing from the first place to the last
C31_SortedPermutation ==
    (engine = "sort" /\ pc = "sortResults") =>
        /\ IsPermutation(firstResult[1].results, result.results)
        /\ PnLNonIncreasing(result.results)

\* a list of three or more results passed in with a smaller profit before a
\* larger one and with two equal profits has been sorted
C31_Witness ==
    /\ engine = "sort" /\ pc = "sortResults"
    /\ Len(result.results) >= 3
    /\ ~PnLNonIncreasing(firstResult[1].results)
    /\ \E a, b \in 1..Len(result.results) :
          a # b /\ result.results[a].TotalPnL = result.results[b].TotalPnL
    /\ result.results # firstResult[1].results


\* list a is the beginning of list b
IsPrefix(a, b) == Len(a) <= Len(b) /\ \A k \in 1..Len(a) : a[k] = b[k]

\* every trade ends no earlier than it began, and no trade ends earlier than
\* the trade before it in the list
TimeOrdered(trades) ==
    /\ \A t \in 1..Len(trades) : trades[t].ExitTime >= trades[t].EntryTime
    /\ \A t \in 1..(Len(trades) - 1) : trades[t].ExitTime <= trades[t + 1].ExitTime

\* C32: in every step of a run the Trades recorded before the step are kept
\* unchanged at the beginning of the list (none altered, none removed), and
\* in the list after the step every Trade has ExitTime >= EntryTime and the
\* ExitTime values do not decrease along the list
C32_TradesAppendOnly ==
    [][(engine \in {"bounce", "backtest"}) =>
          /\ IsPrefix(result.Trades, result'.Trades)
          /\ TimeOrdered(result'.Trades)]_vars

\* trades of two different bars are in the list, the later one closed a
\* tranche held over at least one bar, and the run went on after it
C32_Witness ==
    /\ Bounce /\ pc = "done"
    /\ Len(result.Trades) >= 3
    /\ result.Trades[1].ExitTime < result.Trades[Len(result.Trades)].ExitTime
    /\ result.Trades[Len(result.Trades)].EntryTime
         < result.Trades[Len(result.Trades)].ExitTime
    /\ result.Trades[Len(result.Trades)].ExitTime < klines[n].Timestamp


\* the sum of the amounts of the live tranches of a position
LiveAmount(pos) == IF pos = Nil THEN Zero ELSE AmountSum(pos[1].entries)

\* the tranches the step added to the position
AddedTranches ==
    IF position' = Nil THEN <<>>
    ELSE SubSeq(position'[1].entries,
                (IF position = Nil THEN 0 ELSE Len(position[1].entries)) + 1,
                Len(position'[1].entries))

\* C33: RunBounceBacktest moves quantity and never makes or loses any. A
\* step of the exit block moves amount from the live tranches to new Trades:
\* what was live before equals what is live after plus what the new Trades
\* closed, no more is closed than was held, and every new Trade has an
\* amount > 0. A step of the entry block records no Trade and changes the
\* live tranches only by appending one tranche with an amount > 0. No other
\* step touches tranches or Trades. Hence at the end of every bar, for each
\* position, added = closed + live.
C33_QuantityConserved ==
    [][Bounce =>
         /\ \A t \in 1..Len(NewTrades) : RGt(NewTrades[t].Amount, Zero)
         /\ pc \in {"exit", "close"} =>
               /\ LiveAmount(position)
                    = RAdd(LiveAmount(position'), GrossAmount(NewTrades))
               /\ RLe(GrossAmount(NewTrades), LiveAmount(position))
               /\ position' # Nil =>
                     \A e \in 1..Len(position'[1].entries) :
                        RGt(position'[1].entries[e].amount, Zero)
         /\ pc = "entry" =>
               /\ NewTrades = <<>>
               /\ position' # position =>
                     /\ Len(AddedTranches) = 1
                     /\ RGt(AddedTranches[1].amount, Zero)
                     /\ position # Nil =>
                           SubSeq(position'[1].entries, 1, Len(position[1].entries))
                             = position[1].entries
                     /\ LiveAmount(position')
                          = RAdd(LiveAmount(position), AddedTranches[1].amount)
         /\ pc \notin {"exit", "close", "entry"} =>
               /\ NewTrades = <<>>
               /\ position' = position]_vars

\* a position built from two tranches has been closed completely by partial
\* exits that split a tranche and by a full close
C33_Witness ==
    /\ Bounce /\ pc = "book" /\ position = Nil
    /\ Len(result.Trades) >= 3
    /\ \E a, b \in 1..Len(result.Trades) :
          /\ result.Trades[a].EntryTime = result.Trades[b].EntryTime
          /\ result.Trades[a].ExitTime < result.Trades[b].ExitTime
    /\ \E a, b \in 1..Len(result.Trades) :
          result.Trades[a].EntryTime < result.Trades[b].EntryTime


\* the sum of the PnL fields and of the Fee fields of a trade list
RECURSIVE PnLSum(_)
PnLSum(trades) ==
    IF trades = <<>> THEN Zero ELSE RAdd(Head(trades).PnL, PnLSum(Tail(trades)))

RECURSIVE FeeSum(_)
FeeSum(trades) ==
    IF trades = <<>> THEN Zero ELSE RAdd(Head(trades).Fee, FeeSum(Tail(trades)))

\* C34: in RunBounceBacktest and RunBacktest, once the loop has begun,
\* balance = StartBalance + the sum of the PnL of the recorded trades - the
\* sum of entryPrice * amount * FeeRate over every tranche opened so far
\* (closed or still open), result.TotalPnL is the sum of the recorded
\* trades' PnL and result.TotalFees is the sum of their Fee fields.
C34_BalanceIdentity ==
    ((Bounce \/ Backtest) /\ pc \in {"loop", "exit", "close", "entry", "book", "done"}
       /\ ~TooShort) =>
        /\ balance = RSub(RAdd(config.StartBalance, PnLSum(result.Trades)), OpeningFees)
        /\ result.TotalPnL = PnLSum(result.Trades)
        /\ result.TotalFees = FeeSum(result.Trades)

\* a run with a fee has ended with recorded trades and a tranche still open
C34_Witness ==
    /\ (Bounce \/ Backtest) /\ pc = "done"
    /\ RGt(config.FeeRate, Zero)
    /\ Len(result.Trades) >= 2
    /\ position # Nil /\ Len(position[1].entries) > 0
    /\ balance # config.StartBalance


\* C35: a position of RunBacktest never holds more than two tranches and
\* never two tranches with the same batch ordinal
C35_AtMostOnePerBatch ==
    (Backtest /\ position # Nil) =>
        /\ Len(position[1].entries) <= 2
        /\ \A a, b \in 1..Len(position[1].entries) :
              a # b => position[1].entries[a].batch # position[1].entries[b].batch


\* the bars b-th bucket of five is made of (the last bucket may be shorter)
BucketOf(b) == SubSeq(klines, 5 * (b - 1) + 1, IF 5 * b > n THEN n ELSE 5 * b)

RECURSIVE VolumeOf(_)
VolumeOf(bars) ==
    IF bars = <<>> THEN 0 ELSE Head(bars).Volume + VolumeOf(Tail(bars))

\* C36: ResampleTo5m returns ceil(n/5) bars, the b-th one with Timestamp and
\* Open of the first bar of the b-th bucket of five, Close of its last bar,
\* High the maximum High of the bucket, Low the minimum Low of the bucket
\* and Volume the sum of the bucket's volumes
C36_Resample ==
    (engine = "resample" /\ pc = "ResampleTo5m") =>
        /\ Len(result) = (n + 4) \div 5
        /\ \A b \in 1..Len(result) :
              LET bucket == BucketOf(b)
              IN  /\ result[b].Timestamp = bucket[1].Timestamp
                  /\ result[b].Open = bucket[1].Open
                  /\ result[b].Close = bucket[Len(bucket)].Close
                  /\ \E k \in 1..Len(bucket) : result[b].High = bucket[k].High
                  /\ \A k \in 1..Len(bucket) : result[b].High >= bucket[k].High
                  /\ \E k \in 1..Len(bucket) : result[b].Low = bucket[k].Low
                  /\ \A k \in 1..Len(bucket) : result[b].Low <= bucket[k].Low
                  /\ result[b].Volume = VolumeOf(bucket)


\* the ticker of Run keeps firing, with fetches that succeed
TickerFires == []<><<TickGenerates>>_vars

\* C37: once Stop has been called, Run eventually returns (the ticker being
\* one that keeps firing), and no tick after the call generates or executes
\* a signal
C37_StopStops ==
    /\ TickerFires => [](result.stopped => <>(pc = "returned"))
    /\ [][result.stopped => ~TickGenerates]_vars

\* C38: whenever DryRun is true or the Strategy has no client, executeSignal
\* has called none of the client's ticker, account and open-order functions
\* and has returned nil, whatever signal it was given
C38_DryRunSendsNothing ==
    (engine = "strategy" /\ (config.DryRun \/ ~result.client)
       /\ result.executed # "") =>
        /\ result.calls = {}
        /\ result.err = "nil"

\* executeSignal was given SignalLong by the polling loop of a Strategy that
\* has a client and runs dry
C38_Witness ==
    /\ engine = "strategy" /\ pc = "select"
    /\ config.DryRun /\ result.client
    /\ result.executed = "SignalLong" /\ result.signal = "SignalLong"

=============================================================================
